---- MODULE Spec2Model ----
(***************************************************************************)
(* pg-schema-gen: the schema-to-type-model compiler of src/pg-schema-gen.js *)
(* (pgsql-parser variant), with the helpers of src/utils.js and            *)
(* src/pg-types.js.                                                         *)
(*                                                                          *)
(* A JavaScript string is a sequence of one-character strings, indexed from *)
(* 0 by the String helpers below as JavaScript indexes it.  A literal the   *)
(* program only copies and never inspects ('z.number().int()', 'Schema')    *)
(* is kept as one element of the sequence.  An absent (undefined) property  *)
(* of an object is a key that is not in the DOMAIN of the record.           *)
(***************************************************************************)
EXTENDS Integers, Sequences, FiniteSets, TLC

NL == "\n"

LowerLetters ==
    << "a", "b", "c", "d", "e", "f", "g", "h", "i", "j", "k", "l", "m",
       "n", "o", "p", "q", "r", "s", "t", "u", "v", "w", "x", "y", "z" >>

UpperLetters ==
    << "A", "B", "C", "D", "E", "F", "G", "H", "I", "J", "K", "L", "M",
       "N", "O", "P", "Q", "R", "S", "T", "U", "V", "W", "X", "Y", "Z" >>

DigitChars == << "0", "1", "2", "3", "4", "5", "6", "7", "8", "9" >>

WhiteSpace == { " ", NL, "\t" }

\* Position of c in seq (1-based), 0 when c does not occur.
PosIn(seq, c) ==
    IF \E k \in 1..Len(seq) : seq[k] = c
    THEN CHOOSE k \in 1..Len(seq) : seq[k] = c
    ELSE 0

IsLower(c) == PosIn(LowerLetters, c) > 0
IsUpper(c) == PosIn(UpperLetters, c) > 0

charToUpper(c) == IF IsLower(c) THEN UpperLetters[PosIn(LowerLetters, c)] ELSE c
charToLower(c) == IF IsUpper(c) THEN LowerLetters[PosIn(UpperLetters, c)] ELSE c

toUpperCase(s) == [k \in 1..Len(s) |-> charToUpper(s[k])]
toLowerCase(s) == [k \in 1..Len(s) |-> charToLower(s[k])]

MinOf(a, b) == IF a < b THEN a ELSE b
MaxOf(a, b) == IF a > b THEN a ELSE b
Clamp(i, n) == MaxOf(0, MinOf(i, n))

\* s.substring(a, b): both ends clamped to 0..length, swapped when a > b.
substring(s, a, b) ==
    LET lo == MinOf(Clamp(a, Len(s)), Clamp(b, Len(s)))
        hi == MaxOf(Clamp(a, Len(s)), Clamp(b, Len(s)))
    IN  [k \in 1..(hi - lo) |-> s[lo + k]]

\* s.substring(a)
substringFrom(s, a) == substring(s, a, Len(s))

\* s.indexOf(c, from) for a one-character c: 0-based, -1 when not found.
indexOf(s, c, from) ==
    LET hits == { k \in Clamp(from, Len(s))..(Len(s) - 1) : s[k + 1] = c }
    IN  IF hits = {} THEN -1 ELSE CHOOSE k \in hits : \A j \in hits : k <= j

\* s.lastIndexOf(c, from) for a one-character c.
lastIndexOf(s, c, from) ==
    LET hits == { k \in 0..MinOf(Clamp(from, Len(s)), Len(s) - 1) : s[k + 1] = c }
    IN  IF hits = {} THEN -1 ELSE CHOOSE k \in hits : \A j \in hits : k >= j

startsWith(s, p) == Len(s) >= Len(p) /\ SubSeq(s, 1, Len(p)) = p
endsWith(s, p) == Len(s) >= Len(p) /\ SubSeq(s, Len(s) - Len(p) + 1, Len(s)) = p

\* s.trim()
trim(s) ==
    LET keep == { k \in 1..Len(s) : s[k] \notin WhiteSpace }
    IN  IF keep = {} THEN << >>
        ELSE LET lo == CHOOSE k \in keep : \A j \in keep : k <= j
                 hi == CHOOSE k \in keep : \A j \in keep : k >= j
             IN  SubSeq(s, lo, hi)

\* lines.join(sep)
RECURSIVE join(_, _)
join(lines, sep) ==
    IF Len(lines) = 0 THEN << >>
    ELSE IF Len(lines) = 1 THEN lines[1]
    ELSE lines[1] \o sep \o join(Tail(lines), sep)

\* text.split('\n')
RECURSIVE split(_)
split(text) ==
    LET n == indexOf(text, NL, 0)
    IN  IF n = -1 THEN << text >>
        ELSE << substring(text, 0, n) >> \o split(substringFrom(text, n + 1))

\* The primary collation weight of a character: punctuation, then digits,
\* then letters without regard to case.
PrimaryWeight(c) ==
    IF PosIn(DigitChars, c) > 0 THEN 1 + PosIn(DigitChars, c)
    ELSE IF IsLower(c) THEN 11 + PosIn(LowerLetters, c)
    ELSE IF IsUpper(c) THEN 11 + PosIn(UpperLetters, c)
    ELSE 1

\* a.localeCompare(b) under the default (root) collation: the first primary
\* difference decides, a proper prefix sorts first, and strings equal at the
\* primary level are ordered by their first difference of case, lower first.
localeCompare(a, b) ==
    LET n == MinOf(Len(a), Len(b))
        pd == { k \in 1..n : PrimaryWeight(a[k]) /= PrimaryWeight(b[k]) }
        cd == { k \in 1..n : a[k] /= b[k] }
        First(S) == CHOOSE k \in S : \A j \in S : k <= j
    IN  IF pd /= {}
        THEN (IF PrimaryWeight(a[First(pd)]) < PrimaryWeight(b[First(pd)]) THEN -1 ELSE 1)
        ELSE IF Len(a) /= Len(b) THEN (IF Len(a) < Len(b) THEN -1 ELSE 1)
        ELSE IF cd = {} THEN 0
        ELSE IF IsLower(a[First(cd)]) THEN -1 ELSE 1

\* Array.prototype.sort((a,b)=>key(a).localeCompare(key(b))): a stable sort.
\* keys[k] is the sort key of ary[k].
RECURSIVE sortByKeys(_, _)
sortByKeys(ary, keys) ==
    IF Len(ary) <= 1 THEN ary
    ELSE LET n     == Len(ary)
             rest  == sortByKeys(SubSeq(ary, 1, n - 1), SubSeq(keys, 1, n - 1))
             rkeys == sortByKeys(SubSeq(keys, 1, n - 1), SubSeq(keys, 1, n - 1))
             le    == { k \in 1..(n - 1) : localeCompare(rkeys[k], keys[n]) <= 0 }
             at    == IF le = {} THEN 0 ELSE CHOOSE k \in le : \A j \in le : k >= j
         IN  SubSeq(rest, 1, at) \o << ary[n] >> \o SubSeq(rest, at + 1, n - 1)

(***************************************************************************)
(* src/utils.js                                                            *)
(***************************************************************************)

\* The value undefined where a string is expected.  It is no text: no
\* sequence of characters equals it.
undefined == << "<undefined>" >>

\* name.substring(1).replace(/_+([a-z])/g,(_,c)=>c.toUpperCase()): a run of
\* underscores followed by a lower-case letter becomes that letter in upper
\* case; a run followed by anything else is kept.
RECURSIVE replaceUnderscores(_)
replaceUnderscores(s) ==
    IF Len(s) = 0 THEN << >>
    ELSE IF s[1] /= "_" THEN << s[1] >> \o replaceUnderscores(Tail(s))
    ELSE LET others == { k \in 1..Len(s) : s[k] /= "_" }
             run    == IF others = {} THEN Len(s)
                       ELSE (CHOOSE k \in others : \A j \in others : k <= j) - 1
         IN  IF run < Len(s) /\ IsLower(s[run + 1])
             THEN << charToUpper(s[run + 1]) >>
                      \o replaceUnderscores(SubSeq(s, run + 2, Len(s)))
             ELSE << "_" >> \o replaceUnderscores(Tail(s))

toTsName(name) ==
    toUpperCase(substring(name, 0, 1)) \o replaceUnderscores(substringFrom(name, 1))

\* The while loop of findComment: i is the scan index, lines the lines
\* collected so far.
RECURSIVE findCommentLoop(_, _, _, _)

\* findCommentLoop with the scan ended by a blank line.
findCommentLoop_blankStops(sql, i, lines, forward) ==
    IF ~(i > -1 /\ i <= Len(sql)) THEN lines
    ELSE LET s == IF forward THEN indexOf(sql, NL, i + 1) ELSE lastIndexOf(sql, NL, i)
         IN  IF s = -1 THEN lines
             ELSE LET line == IF forward THEN trim(substring(sql, i, s))
                                         ELSE trim(substring(sql, s, i + 1))
                  IN  IF ~startsWith(line, << "-", "-" >>) THEN lines
                      ELSE LET text == IF startsWith(line, << "-", "-", " " >>)
                                       THEN substringFrom(line, 3)
                                       ELSE substringFrom(line, 2)
                           IN  findCommentLoop(sql,
                                   IF forward THEN s + 1 ELSE s - 1,
                                   IF forward THEN Append(lines, text) ELSE << text >> \o lines,
                                   forward)

findCommentLoop(sql, i, lines, forward) ==
    IF ~(i > -1 /\ i <= Len(sql)) THEN lines
    ELSE LET s == IF forward THEN indexOf(sql, NL, i + 1) ELSE lastIndexOf(sql, NL, i)
         IN  IF s = -1 THEN lines
             ELSE LET line == IF forward THEN trim(substring(sql, i, s))
                                         ELSE trim(substring(sql, s, i + 1))
                  IN  IF line /= << >> /\ ~startsWith(line, << "-", "-" >>) THEN lines
                      ELSE LET text == IF startsWith(line, << "-", "-", " " >>)
                                       THEN substringFrom(line, 3)
                                       ELSE substringFrom(line, 2)
                           IN  findCommentLoop(sql,
                                   IF forward THEN s + 1 ELSE s - 1,
                                   IF forward THEN Append(lines, text) ELSE << text >> \o lines,
                                   forward)

\* popBlankLines with no line removed.
popBlankLines_none(lines) == lines

\* while(lines[lines.length-1]==='') lines.pop()
RECURSIVE popBlankLines(_)
popBlankLines(lines) ==
    IF Len(lines) > 0 /\ lines[Len(lines)] = << >>
    THEN popBlankLines(SubSeq(lines, 1, Len(lines) - 1))
    ELSE lines

findComment(sql, statementStart, forward) ==
    LET i0 == IF forward THEN statementStart ELSE lastIndexOf(sql, NL, statementStart)
    IN  IF i0 = -1 THEN undefined
        ELSE LET i1    == IF substring(sql, i0, 1) = << ";" >> THEN i0 + 1 ELSE i0
                 i2    == IF ~forward THEN i1 - 1 ELSE i1
                 lines == popBlankLines(findCommentLoop(sql, i2, << >>, forward))
             IN  IF Len(lines) > 0 THEN trim(join(lines, << NL >>)) ELSE undefined

selectNonComment(lines) == SelectSeq(lines, LAMBDA l : ~startsWith(l, << "-", "-" >>))

removeSqlComments(text) ==
    LET ls == split(text)
    IN  trim(join(selectNonComment([k \in 1..Len(ls) |-> trim(ls[k])]), << NL >>))

removeTrailingComma(text) ==
    IF endsWith(text, << "," >>) THEN trim(substring(text, 0, Len(text) - 1)) ELSE text

\* text.replace(/\n/g, () => by)
RECURSIVE replaceNewlines(_, _)
replaceNewlines(text, by) ==
    IF Len(text) = 0 THEN << >>
    ELSE (IF text[1] = NL THEN by ELSE << text[1] >>) \o replaceNewlines(Tail(text), by)

\* text.replace(/\*\//g,'(star)/')
RECURSIVE escapeJsComment(_)
escapeJsComment(text) ==
    IF Len(text) = 0 THEN << >>
    ELSE IF startsWith(text, << "*", "/" >>)
    THEN << "(star)/" >> \o escapeJsComment(SubSeq(text, 3, Len(text)))
    ELSE << text[1] >> \o escapeJsComment(Tail(text))

toJsDoc(text, indent, noEnclose) ==
    LET body == indent \o << " * " >>
                  \o replaceNewlines(escapeJsComment(text), << NL >> \o indent \o << " * " >>)
    IN  IF noEnclose THEN body
        ELSE indent \o << "/**", NL >> \o body \o << NL >> \o indent \o << " */" >>

toConvoComment(text, indent) ==
    indent \o << "# " >> \o replaceNewlines(text, << NL >> \o indent \o << "# " >>)

\* JSON.stringify of a string
RECURSIVE jsonEscape(_)
jsonEscape(text) ==
    IF Len(text) = 0 THEN << >>
    ELSE (IF text[1] = NL THEN << "\\", "n" >>
          ELSE IF text[1] = "\"" THEN << "\\", "\"" >>
          ELSE IF text[1] = "\\" THEN << "\\", "\\" >>
          ELSE << text[1] >>) \o jsonEscape(Tail(text))

jsonString(text) == << "\"" >> \o jsonEscape(text) \o << "\"" >>

(***************************************************************************)
(* src/pg-types.js: the parse tree is the JSON pgsql-parser yields, a node  *)
(* being a record with one key that names its kind.                         *)
(***************************************************************************)

\* The value undefined where a node or an object is expected.
Nothing == [nothing |-> TRUE]
IsNothing(v) == "nothing" \in DOMAIN v

getPgString(node) ==
    IF "String" \in DOMAIN node /\ "sval" \in DOMAIN node.String
    THEN node.String.sval
    ELSE undefined

RECURSIVE getPgStrings(_)
getPgStrings(nodes) ==
    IF Len(nodes) = 0 THEN << >>
    ELSE (IF getPgString(nodes[1]) /= undefined THEN << getPgString(nodes[1]) >> ELSE << >>)
             \o getPgStrings(Tail(nodes))

getFirstPgString(nodes) ==
    IF getPgStrings(nodes) = << >> THEN undefined ELSE getPgStrings(nodes)[1]

getPgColumnDef(node) == IF "ColumnDef" \in DOMAIN node THEN node.ColumnDef ELSE Nothing

getPgConstraint(node) == IF "Constraint" \in DOMAIN node THEN node.Constraint ELSE Nothing

RECURSIVE getPgConstraints(_)
getPgConstraints(nodes) ==
    IF Len(nodes) = 0 THEN << >>
    ELSE (IF IsNothing(getPgConstraint(nodes[1])) THEN << >>
          ELSE << getPgConstraint(nodes[1]) >>) \o getPgConstraints(Tail(nodes))

\* The loop of getPgTypeName: the first name that does not start with pg_,
\* else the last name seen.
RECURSIVE getPgTypeNameLoop(_, _)
getPgTypeNameLoop(names, name) ==
    IF Len(names) = 0 THEN name
    ELSE LET n == getPgString(names[1])
         IN  IF n = undefined \/ n = << >> THEN getPgTypeNameLoop(Tail(names), name)
             ELSE IF ~startsWith(n, << "p", "g", "_" >>) THEN n
             ELSE getPgTypeNameLoop(Tail(names), n)

getPgTypeName(typeName) ==
    IF IsNothing(typeName) \/ "names" \notin DOMAIN typeName THEN undefined
    ELSE getPgTypeNameLoop(typeName.names, undefined)

getPgCreateTable(st) ==
    IF "CreateStmt" \notin DOMAIN st.stmt THEN Nothing
    ELSE LET s == st.stmt.CreateStmt
             location == IF "stmt_location" \in DOMAIN st THEN st.stmt_location ELSE 0
         IN  IF \/ "tableElts" \notin DOMAIN s
                \/ "relation" \notin DOMAIN s
                \/ "relname" \notin DOMAIN s.relation
                \/ s.relation.relname = << >>
             THEN Nothing
             ELSE [ name           |-> s.relation.relname,
                    schema         |-> IF "schemaname" \in DOMAIN s.relation
                                       THEN s.relation.schemaname ELSE undefined,
                    tableElts      |-> s.tableElts,
                    constraintList |-> getPgConstraints(s.tableElts),
                    location       |-> location,
                    endLocation    |-> location
                                         + (IF "stmt_len" \in DOMAIN st THEN st.stmt_len ELSE 0) ]

\* getPgCreateEnum that takes an enum declared without values.
getPgCreateEnum_anyVals(st) ==
    IF "CreateEnumStmt" \notin DOMAIN st.stmt THEN Nothing
    ELSE [ name     |-> getFirstPgString(st.stmt.CreateEnumStmt.typeName),
           vals     |-> IF "vals" \in DOMAIN st.stmt.CreateEnumStmt
                        THEN st.stmt.CreateEnumStmt.vals ELSE << >>,
           location |-> IF "stmt_location" \in DOMAIN st THEN st.stmt_location ELSE 0 ]

getPgCreateEnum(st) ==
    IF "CreateEnumStmt" \notin DOMAIN st.stmt THEN Nothing
    ELSE LET s    == st.stmt.CreateEnumStmt
             name == IF "typeName" \in DOMAIN s THEN getFirstPgString(s.typeName) ELSE undefined
         IN  IF name = undefined \/ name = << >> \/ "vals" \notin DOMAIN s
             THEN Nothing
             ELSE [ name     |-> name,
                    vals     |-> s.vals,
                    location |-> IF "stmt_location" \in DOMAIN st THEN st.stmt_location ELSE 0 ]

(***************************************************************************)
(* Inputs.  pgsql-parser is an external collaborator: a source is written   *)
(* here as a sequence of declarations, and SourceOf gives its text together *)
(* with the tree the parser reports for that text: unquoted identifiers in  *)
(* lower case, built-in types under pg_catalog, a column located at its     *)
(* name, the first statement located at 0 (stmt_location left out) and each *)
(* later one right after the semicolon that ends the one before it.         *)
(***************************************************************************)

T_create == << "c", "r", "e", "a", "t", "e", " " >>
T_table  == << "t", "a", "b", "l", "e", " " >>
T_type   == << "t", "y", "p", "e", " " >>
T_index  == << "i", "n", "d", "e", "x", " ", "o", "n", " " >>
T_asEnum == << " ", "a", "s", " ", "e", "n", "u", "m", " ", "(" >>
T_notNull == << " ", "n", "o", "t", " ", "n", "u", "l", "l" >>
T_primaryKey == << " ", "p", "r", "i", "m", "a", "r", "y", " ", "k", "e", "y" >>
T_default == << " ", "d", "e", "f", "a", "u", "l", "t", " ", "0" >>
T_pgCatalog == << "p", "g", "_", "c", "a", "t", "a", "l", "o", "g" >>
T_indent == << " ", " " >>

\* An identifier as written in the text: quoted when it holds an upper-case letter.
Ident(n) ==
    IF \E k \in 1..Len(n) : IsUpper(n[k]) THEN << "\"" >> \o n \o << "\"" >> ELSE n

StringNodes(strs) == [k \in 1..Len(strs) |-> [String |-> [sval |-> strs[k]]]]

RECURSIVE Repeat(_, _)
Repeat(str, n) == IF n <= 0 THEN << >> ELSE str \o Repeat(str, n - 1)

\* The comment and blank lines written before a declaration.
RECURSIVE PreText(_, _)
PreText(lines, ind) ==
    IF Len(lines) = 0 THEN << >>
    ELSE (IF lines[1] = << >> THEN << NL >> ELSE ind \o lines[1] \o << NL >>)
             \o PreText(Tail(lines), ind)

QualifiedText(names) ==
    join([k \in 1..Len(names) |-> Ident(names[k])], << "." >>)

TypeText(names, depth) ==
    (IF Len(names) > 1 /\ names[1] = T_pgCatalog
     THEN Ident(names[2]) ELSE QualifiedText(names)) \o Repeat(<< "[", "]" >>, depth)

ConstraintText(contype) ==
    IF contype = "CONSTR_NOTNULL" THEN T_notNull
    ELSE IF contype = "CONSTR_PRIMARY" THEN T_primaryKey
    ELSE T_default

ColumnText(d) ==
    Ident(d.colname) \o << " " >> \o TypeText(d.names, d.depth)
        \o join([k \in 1..Len(d.cons) |-> ConstraintText(d.cons[k])], << >>)

ColumnNode(d, loc) ==
    LET typeName == IF d.depth > 0
                    THEN [ names       |-> StringNodes(d.names),
                           arrayBounds |-> [k \in 1..d.depth |-> [Integer |-> [ival |-> -1]]] ]
                    ELSE [ names |-> StringNodes(d.names) ]
        cons     == [k \in 1..Len(d.cons) |-> [Constraint |-> [contype |-> d.cons[k]]]]
    IN  IF Len(d.cons) > 0
        THEN [ColumnDef |-> [ colname |-> d.colname, typeName |-> typeName,
                              constraints |-> cons, location |-> loc ]]
        ELSE [ColumnDef |-> [ colname |-> d.colname, typeName |-> typeName,
                              location |-> loc ]]

KeyText(d) ==
    SubSeq(T_primaryKey, 2, Len(T_primaryKey)) \o << " ", "(" >>
        \o join([k \in 1..Len(d.keys) |-> Ident(d.keys[k])], << ",", " " >>) \o << ")" >>

KeyNode(d, loc) ==
    [Constraint |-> [ contype |-> "CONSTR_PRIMARY", keys |-> StringNodes(d.keys),
                      location |-> loc ]]

\* The element is written on the line of what precedes it (the table header
\* or the element before it).
SameLine(elts, k) == k <= Len(elts) /\ "sameLine" \in DOMAIN elts[k]

\* The elements of a table, one per line unless marked otherwise:
\* [text, nodes].
RECURSIVE TableEltsOf(_, _, _, _)
TableEltsOf(elts, base, text, nodes) ==
    IF Len(nodes) = Len(elts) THEN [text |-> text, nodes |-> nodes]
    ELSE LET k    == Len(nodes) + 1
             e    == elts[k]
             pre  == IF SameLine(elts, k) THEN text
                     ELSE text \o PreText(e.pre, T_indent) \o T_indent
             loc  == base + Len(pre)
             body == IF e.el = "col" THEN ColumnText(e) ELSE KeyText(e)
             node == IF e.el = "col" THEN ColumnNode(e, loc) ELSE KeyNode(e, loc)
         IN  TableEltsOf(elts, base,
                         pre \o body \o (IF k < Len(elts) THEN << "," >> ELSE << >>)
                             \o (IF SameLine(elts, k + 1) THEN << " " >> ELSE << NL >>),
                         Append(nodes, node))

\* One declaration d whose statement starts at offset base: [text, stmt].
StatementOf(d, base) ==
    LET head == (IF base = 0 THEN << >> ELSE << NL >>) \o PreText(d.pre, << >>)
    IN  IF d.kind = "table"
        THEN LET relation == IF d.schema = << >> THEN [relname |-> d.rel]
                             ELSE [relname |-> d.rel, schemaname |-> d.schema]
                 open == head \o T_create \o T_table
                           \o (IF d.schema = << >> THEN << >> ELSE Ident(d.schema) \o << "." >>)
                           \o Ident(d.rel) \o << " ", "(" >>
                 r    == TableEltsOf(d.elts, base,
                                         open \o (IF SameLine(d.elts, 1) THEN << >>
                                                  ELSE << NL >>),
                                         << >>)
             IN  IF Len(d.elts) = 0
                 THEN [ text |-> open \o << ")" >>,
                        stmt |-> [CreateStmt |-> [relation |-> relation]] ]
                 ELSE [ text |-> r.text \o << ")" >>,
                        stmt |-> [CreateStmt |-> [relation |-> relation, tableElts |-> r.nodes]] ]
        ELSE IF d.kind = "enum"
        THEN [ text |-> head \o T_create \o T_type \o QualifiedText(d.names) \o T_asEnum
                          \o join([k \in 1..Len(d.vals) |->
                                     << "'" >> \o d.vals[k] \o << "'" >>], << ",", " " >>)
                          \o << ")" >>,
               stmt |-> [CreateEnumStmt |->
                            IF Len(d.vals) = 0 THEN [ typeName |-> StringNodes(d.names) ]
                            ELSE [ typeName |-> StringNodes(d.names),
                                   vals     |-> StringNodes(d.vals) ]] ]
        ELSE [ text |-> head \o T_create \o T_index \o Ident(d.rel)
                          \o << " ", "(", "a", ")" >>,
               stmt |-> [IndexStmt |-> [relation |-> [relname |-> d.rel]]] ]

\* The text of the declarations ds, each ended by a semicolon, and the
\* statements parsed from it: [sql, stmts].
RECURSIVE SourceFrom(_, _, _)
SourceFrom(ds, sql, stmts) ==
    IF Len(stmts) = Len(ds) THEN [sql |-> sql \o << NL >>, stmts |-> stmts]
    ELSE LET base == Len(sql)
             r    == StatementOf(ds[Len(stmts) + 1], base)
             raw  == IF base = 0
                     THEN [stmt |-> r.stmt, stmt_len |-> Len(r.text)]
                     ELSE [stmt |-> r.stmt, stmt_len |-> Len(r.text), stmt_location |-> base]
         IN  SourceFrom(ds, sql \o r.text \o << ";" >>, Append(stmts, raw))

SourceOf(ds) == SourceFrom(ds, << >>, << >>)

(***************************************************************************)
(* The names and the declarations the inputs are drawn from.                 *)
(***************************************************************************)
S_id == << "i", "d" >>
S_name == << "n", "a", "m", "e" >>
S_data == << "d", "a", "t", "a" >>
S_kind == << "k", "i", "n", "d" >>
S_role == << "r", "o", "l", "e" >>
S_Zed == << "Z", "e", "d" >>
S_text == << "t", "e", "x", "t" >>
S_uuid == << "u", "u", "i", "d" >>
S_jsonb == << "j", "s", "o", "n", "b" >>
S_int4 == << "i", "n", "t", "4" >>
S_int == << "i", "n", "t" >>
S_int2 == << "i", "n", "t", "2" >>
S_int8 == << "i", "n", "t", "8" >>
S_float == << "f", "l", "o", "a", "t" >>
S_float4 == << "f", "l", "o", "a", "t", "4" >>
S_float8 == << "f", "l", "o", "a", "t", "8" >>
S_numeric == << "n", "u", "m", "e", "r", "i", "c" >>
S_json == << "j", "s", "o", "n" >>
S_bool == << "b", "o", "o", "l" >>
S_boolean == << "b", "o", "o", "l", "e", "a", "n" >>
S_public == << "p", "u", "b", "l", "i", "c" >>
S_account == << "a", "c", "c", "o", "u", "n", "t" >>
S_item == << "i", "t", "e", "m" >>
S_a_b == << "a", "_", "b" >>
S_a_u_b == << "a", "_", "_", "b" >>
S_tags == << "t", "a", "g", "s" >>
S_UUID == << "U", "U", "I", "D" >>
S_default == << "_", "d", "e", "f", "a", "u", "l", "t" >>
S_insert == << "_", "i", "n", "s", "e", "r", "t" >>
S_Insertion == << "I", "n", "s", "e", "r", "t", "i", "o", "n" >>
S_x == << "x" >>
S_y == << "y" >>
S_z == << "z" >>
S_a == << "a" >>
S_b == << "b" >>
S_e == << "e" >>

Col(colname, names, depth, cons, pre) ==
    [el |-> "col", colname |-> colname, names |-> names, depth |-> depth,
     cons |-> cons, pre |-> pre]

Key(keys, pre) == [el |-> "pk", keys |-> keys, pre |-> pre]

Blank == << >>

\* -- k
Comment_k == << "-", "-", " ", "k" >>
\* --n
Comment_n == << "-", "-", "n" >>
\* --  m   (two spaces after the marker)
Comment_m == << "-", "-", " ", " ", "m" >>
\* -- b
Comment_b == << "-", "-", " ", "b" >>
\* -- r
Comment_r == << "-", "-", " ", "r" >>

D_role == [kind |-> "enum", names |-> << S_role >>, vals |-> << S_a, S_b >>,
           pre |-> << Comment_r >>]

D_Zed == [kind |-> "enum", names |-> << S_Zed >>, vals |-> << S_x >>, pre |-> << >>]

\* create type data as enum ()
D_void == [kind |-> "enum", names |-> << S_data >>, vals |-> << >>, pre |-> << >>]

D_account ==
    [kind |-> "table", schema |-> S_public, rel |-> S_account, pre |-> << Comment_k >>,
     elts |-> << Col(S_id,   << S_uuid >>,  0, << "CONSTR_NOTNULL", "CONSTR_DEFAULT" >>,
                     << Comment_k >>),
                 Col(S_name, << S_text >>,  0, << "CONSTR_NOTNULL" >>,
                     << Comment_n, Blank >>),
                 Col(S_data, << S_jsonb >>, 0, << >>, << >>),
                 Col(S_kind, << S_role >>,  0, << >>, << >>) >>]

D_item ==
    [kind |-> "table", schema |-> << >>, rel |-> S_item, pre |-> << >>,
     elts |-> << Col(S_a,    << T_pgCatalog, S_int4 >>, 0,
                     << "CONSTR_PRIMARY", "CONSTR_DEFAULT" >>, << >>),
                 Col(S_z,    << S_Zed >>,  0, << "CONSTR_NOTNULL" >>, << Comment_m >>),
                 Col(S_tags, << S_text >>, 2, << "CONSTR_DEFAULT" >>,
                     << Blank, Comment_k, Comment_n >>) >>]

D_a_b ==
    [kind |-> "table", schema |-> << >>, rel |-> S_a_b, pre |-> << Comment_b >>,
     elts |-> << Col(S_y, << S_text >>, 0, << >>, << >>),
                 Col(S_x, << T_pgCatalog, S_int4 >>, 0, << "CONSTR_DEFAULT" >>, << >>),
                 Key(<< S_y, S_x >>, << >>) >>]

D_a_u_b ==
    [kind |-> "table", schema |-> << >>, rel |-> S_a_u_b, pre |-> << >>,
     elts |-> << Col(S_b, << S_UUID >>, 1, << >>, << Comment_b, Blank, Blank >>),
                 Col(S_a, << S_uuid >>, 0, << "CONSTR_NOTNULL", "CONSTR_PRIMARY" >>,
                     << >>) >>]

\* create table e (): the parser reports no tableElts.
D_empty == [kind |-> "table", schema |-> << >>, rel |-> S_e, pre |-> << >>, elts |-> << >>]

D_index == [kind |-> "index", rel |-> S_item, pre |-> << >>]

Declarations ==
    { D_role, D_Zed, D_void, D_account, D_item, D_a_b, D_a_u_b, D_empty, D_index }

\* create type public.role as enum ('a', 'b'): the parser reports the two
\* names of the type, the schema first.
D_public_role ==
    [kind |-> "enum", names |-> << S_public, S_role >>, vals |-> << S_a, S_b >>,
     pre |-> << >>]

D_public_kind ==
    [kind |-> "enum", names |-> << S_public, S_kind >>, vals |-> << S_x >>, pre |-> << >>]

\* create table data (id uuid not null, kind public.role)
D_data ==
    [kind |-> "table", schema |-> << >>, rel |-> S_data, pre |-> << >>,
     elts |-> << Col(S_id,   << S_uuid >>, 0, << "CONSTR_NOTNULL" >>, << >>),
                 Col(S_kind, << S_public, S_role >>, 0, << >>, << >>) >>]

\* The declarations with names qualified by a schema: the sources hold them
\* among themselves.
QualifiedDeclarations == { D_public_role, D_public_kind, D_data }

\* A column written on the line of what precedes it.
ColSameLine(colname, names, cons) ==
    [el |-> "col", colname |-> colname, names |-> names, depth |-> 0, cons |-> cons,
     pre |-> << >>, sameLine |-> TRUE]

\* -- k
\* create table kind (a text,
\*   b text
\* )
D_kind ==
    [kind |-> "table", schema |-> << >>, rel |-> S_kind, pre |-> << Comment_k >>,
     elts |-> << ColSameLine(S_a, << S_text >>, << >>),
                 Col(S_b, << S_text >>, 0, << >>, << >>) >>]

\* create table e (
\*   -- n
\*   x text, y text not null
\* )
D_e ==
    [kind |-> "table", schema |-> << >>, rel |-> S_e, pre |-> << >>,
     elts |-> << Col(S_x, << S_text >>, 0, << >>, << Comment_n >>),
                 ColSameLine(S_y, << S_text >>, << "CONSTR_NOTNULL" >>) >>]

\* The declarations with a column that does not start its line: the sources
\* hold them among themselves.
SameLineDeclarations == { D_kind, D_e }

(***************************************************************************)
(* src/pg-schema-gen.js                                                     *)
(***************************************************************************)

defaultTypeMap ==
    (S_default :> [name |-> << "string" >>])
    @@ (S_text    :> [name |-> << "string" >>])
    @@ (S_int     :> [name |-> << "number" >>, zod |-> << "z.number().int()" >>])
    @@ (S_int2    :> [name |-> << "number" >>, zod |-> << "z.number().int()" >>])
    @@ (S_int4    :> [name |-> << "number" >>, zod |-> << "z.number().int()" >>])
    @@ (S_int8    :> [name |-> << "number" >>, zod |-> << "z.number().int()" >>])
    @@ (S_float   :> [name |-> << "number" >>])
    @@ (S_float4  :> [name |-> << "number" >>])
    @@ (S_float8  :> [name |-> << "number" >>])
    @@ (S_numeric :> [name |-> << "number" >>])
    @@ (S_json    :> [name |-> << "json" >>, ts |-> << "Record<string,any>" >>,
                      zod |-> << "z.record(z.string(),z.any())" >>, convo |-> << "map" >>])
    @@ (S_jsonb   :> [name |-> << "json" >>, ts |-> << "Record<string,any>" >>,
                      zod |-> << "z.record(z.string(),z.any())" >>, convo |-> << "map" >>])
    @@ (S_bool    :> [name |-> << "boolean" >>])
    @@ (S_boolean :> [name |-> << "boolean" >>])

indent == << "    " >>

\* obj.key, undefined when the object has no such key.
Get(obj, key) == IF key \in DOMAIN obj THEN obj[key] ELSE undefined

\* a ?? b
Coalesce(a, b) == IF a /= undefined THEN a ELSE b

\* if(text): a string is truthy unless it is undefined or empty.
Truthy(text) == text /= undefined /\ text /= << >>

\* {...a, ...b}
Spread(a, b) == [k \in DOMAIN a \cup DOMAIN b |-> IF k \in DOMAIN b THEN b[k] ELSE a[k]]

\* obj[key]=value
Assign(obj, key, value) == [k \in DOMAIN obj \cup {key} |-> IF k = key THEN value ELSE obj[k]]

EmptyObject == [k \in {} |-> << >>]

\* mergeTypeMap with the entry of the file put in place of the entry before.
mergeTypeMap_replace(typeMap, map) ==
    [type \in DOMAIN typeMap \cup DOMAIN map |->
        IF type \in DOMAIN map THEN map[type] ELSE typeMap[type]]

\* The body of the loop over the types of one type map file (lines 212-217).
mergeTypeMap(typeMap, map) ==
    [type \in DOMAIN typeMap \cup DOMAIN map |->
        IF type \in DOMAIN map
        THEN Spread(IF type \in DOMAIN typeMap THEN typeMap[type] ELSE EmptyObject, map[type])
        ELSE typeMap[type]]

\* const insertSuffix=args.insertSuffix??'_insert'
insertSuffixOf(args) == Coalesce(Get(args, "insertSuffix"), S_insert)

\* required with the default-value clause left out of the rule.
required_ignoringDefault(forInsert, notNull, isPrimary, hasDefault) == notNull \/ isPrimary

\* const required=forInsert?((notNull || isPrimary) && !hasDefault):(notNull || isPrimary)
required(forInsert, notNull, isPrimary, hasDefault) ==
    IF forInsert THEN (notNull \/ isPrimary) /\ ~hasDefault ELSE (notNull \/ isPrimary)

hasConstraint(constraints, contype) ==
    \E k \in 1..Len(constraints) : constraints[k].contype = contype

includes(ary, v) == \E k \in 1..Len(ary) : ary[k] = v

\* isPrimary with the table-level constraints left out.
isPrimary_inlineOnly(constraints, constraintList, prop) ==
    hasConstraint(constraints, "CONSTR_PRIMARY")

\* const isPrimary=(...)
isPrimary(constraints, constraintList, prop) ==
    \/ hasConstraint(constraints, "CONSTR_PRIMARY")
    \/ \E k \in 1..Len(constraintList) :
          /\ constraintList[k].contype = "CONSTR_PRIMARY"
          /\ "keys" \in DOMAIN constraintList[k]
          /\ includes(getPgStrings(constraintList[k].keys), prop)

\* const mt=typeMap[sqlTypeLower]??typeMap['_default']??{name:'string'}
mt(typeMap, sqlType) ==
    LET sqlTypeLower == toLowerCase(sqlType)
    IN  IF sqlTypeLower \in DOMAIN typeMap THEN typeMap[sqlTypeLower]
        ELSE IF S_default \in DOMAIN typeMap THEN typeMap[S_default]
        ELSE [name |-> << "string" >>]

\* The type of a PropDef: {...mt, ts:mt.ts??mt.name, sql:sqlType}
propType(m, sqlType) ==
    Spread(m, [ts |-> Coalesce(Get(m, "ts"), Get(m, "name")), sql |-> sqlType])

Line(k, str) == [k |-> k, s |-> str]

\* `${indent}${prop}${optional?'?':''}:${mt.ts??mt.name}${'[]'.repeat(arrayDepth)};\n`
tsPropLine(prop, optional, m, arrayDepth) ==
    indent \o prop \o (IF optional THEN << "?" >> ELSE << >>) \o << ":" >>
        \o Coalesce(Get(m, "ts"), Get(m, "name")) \o Repeat(<< "[]" >>, arrayDepth)
        \o << ";", NL >>

RECURSIVE convoArray(_, _)
convoArray(convoProp, a) ==
    IF a <= 0 THEN convoProp
    ELSE convoArray(<< "array(" >> \o convoProp \o << ")" >>, a - 1)

convoPropLine(prop, optional, m, arrayDepth) ==
    convoArray(indent \o prop \o (IF optional THEN << "?" >> ELSE << >>) \o << ": " >>
                   \o Coalesce(Get(m, "convo"), Get(m, "name")), arrayDepth)
        \o << NL >>

zodPropLine(prop, optional, m, arrayDepth, description) ==
    indent \o prop \o << ":" >>
        \o Coalesce(Get(m, "zod"), << "z." >> \o Get(m, "name") \o << "()" >>)
        \o (IF optional THEN << ".optional()" >> ELSE << >>)
        \o Repeat(<< ".array()" >>, arrayDepth)
        \o (IF Truthy(description)
            THEN << ".describe(" >> \o jsonString(description) \o << ")" >> ELSE << >>)
        \o << ",", NL >>

\* The location of the element after tableElts[ti], else the end of the statement.
nextLocation(s, ti) ==
    IF ti + 1 <= Len(s.tableElts)
    THEN LET n == s.tableElts[ti + 1]
             next == IF ~IsNothing(getPgColumnDef(n)) THEN getPgColumnDef(n)
                     ELSE getPgConstraint(n)
         IN  IF ~IsNothing(next) /\ "location" \in DOMAIN next
             THEN next.location ELSE s.endLocation
    ELSE s.endLocation

\* c.typeName, when the column has one.
columnTypeName(c) == IF "typeName" \in DOMAIN c THEN c.typeName ELSE Nothing

\* arrayDepth that tells an array from a scalar and no more.
columnArrayDepth_flag(c) ==
    IF "typeName" \in DOMAIN c /\ "arrayBounds" \in DOMAIN c.typeName THEN 1 ELSE 0

\* const arrayDepth=c.typeName?.arrayBounds?.length??0
columnArrayDepth(c) ==
    IF "typeName" \in DOMAIN c /\ "arrayBounds" \in DOMAIN c.typeName
    THEN Len(c.typeName.arrayBounds) ELSE 0

\* const constraints=getPgConstraints(c.constraints)
columnConstraints(c) ==
    IF "constraints" \in DOMAIN c THEN getPgConstraints(c.constraints) ELSE << >>

\* c.location, which the parser leaves out when it is 0.
columnLocation(c) == IF "location" \in DOMAIN c THEN c.location ELSE 0

\* description looked for whichever the shape.
propDescription_always(sql, location, forInsert) ==
    IF location /= 0 THEN findComment(sql, location, FALSE) ELSE undefined

\* const description=(c.location && !forInsert)?findComment(sql,c.location):undefined
propDescription(sql, location, forInsert) ==
    IF location /= 0 /\ ~forInsert THEN findComment(sql, location, FALSE) ELSE undefined

\* sqlDef:c.location?removeTrailingComma(removeSqlComments(
\*     sql.substring(c.location,next?.location??s.endLocation))):undefined
propSqlDef(s, sql, ti, location) ==
    IF location /= 0
    THEN removeTrailingComma(removeSqlComments(substring(sql, location, nextLocation(s, ti))))
    ELSE undefined

\* isArray:arrayDepth?true:undefined, arrayDimensions:arrayDepth||undefined
arrayFields(arrayDepth) ==
    IF arrayDepth /= 0 THEN [isArray |-> TRUE, arrayDimensions |-> arrayDepth]
    ELSE EmptyObject

\* The lines of the three sources and the PropDef of one column, pushed to
\* acc (lines 603-642).
pushProp(acc, prop, arrayDepth, m, sqlType, primary, hasDefault, optional, description, sqlDef) ==
    [ ts    |-> acc.ts
                  \o (IF Truthy(description)
                      THEN << Line("propDoc", toJsDoc(description, indent, FALSE) \o << NL >>) >>
                      ELSE << >>)
                  \o << Line("prop", tsPropLine(prop, optional, m, arrayDepth)) >>,
      convo |-> acc.convo
                  \o (IF Truthy(description)
                      THEN << Line("propDoc", toConvoComment(description, indent) \o << NL >>) >>
                      ELSE << >>)
                  \o << Line("prop", convoPropLine(prop, optional, m, arrayDepth)) >>,
      zod   |-> Append(acc.zod,
                  Line("prop", zodPropLine(prop, optional, m, arrayDepth, description))),
      props |-> Append(acc.props,
                  Spread([ name        |-> prop,
                           type        |-> propType(m, sqlType),
                           primary     |-> primary,
                           description |-> IF Truthy(description) THEN description
                                           ELSE undefined,
                           sqlDef      |-> sqlDef,
                           optional    |-> optional,
                           hasDefault  |-> hasDefault ],
                         arrayFields(arrayDepth))) ]

\* The body of the loop for a column whose type is dataType (lines 578-642):
\* if(!dataType){continue}, else the flags of the column and its lines.
createTypeColumn(s, forInsert, sql, typeMap, ti, acc, c, constraints, dataType, location) ==
    IF ~Truthy(dataType) THEN acc
    ELSE pushProp(acc, c.colname, columnArrayDepth(c), mt(typeMap, dataType), dataType,
                  isPrimary(constraints, s.constraintList, c.colname),
                  hasConstraint(constraints, "CONSTR_DEFAULT"),
                  ~required(forInsert,
                            hasConstraint(constraints, "CONSTR_NOTNULL"),
                            isPrimary(constraints, s.constraintList, c.colname),
                            hasConstraint(constraints, "CONSTR_DEFAULT")),
                  propDescription(sql, location, forInsert),
                  propSqlDef(s, sql, ti, location))

\* The body of the loop for the element c=getPgColumnDef(s.tableElts[ti])
\* (lines 566-577): if(!c || !c.colname){continue}
createTypeProp(s, forInsert, sql, typeMap, ti, acc, c) ==
    IF IsNothing(c) \/ ~Truthy(Get(c, "colname")) THEN acc
    ELSE createTypeColumn(s, forInsert, sql, typeMap, ti, acc, c, columnConstraints(c),
                          getPgTypeName(columnTypeName(c)), columnLocation(c))

\* The loop over s.tableElts (lines 565-643); acc holds the three src
\* arrays and typeDef.props.
RECURSIVE createTypeProps(_, _, _, _, _, _)
createTypeProps(s, forInsert, sql, typeMap, ti, acc) ==
    IF ti > Len(s.tableElts) THEN acc
    ELSE createTypeProps(s, forInsert, sql, typeMap, ti + 1,
             createTypeProp(s, forInsert, sql, typeMap, ti, acc,
                            getPgColumnDef(s.tableElts[ti])))

\* types.splice(1, deleteCount, item)
splice1(ary, deleteCount, item) ==
    SubSeq(ary, 1, 1) \o << item >> \o SubSeq(ary, 2 + deleteCount, Len(ary))

\* typeDef.props.find(p=>p.primary)?.name
primaryKeyOf(props) ==
    LET ps == { k \in 1..Len(props) : props[k].primary }
    IN  IF ps = {} THEN undefined
        ELSE props[CHOOSE k \in ps : \A j \in ps : k <= j].name

\* pushTypeDef with the TypeDef of the insertion shape pushed as well.
pushTypeDef_always(typeDefs, typeDef, forInsert) == Append(typeDefs, typeDef)

\* if(!forInsert){ typeDefs.push(typeDef) }
pushTypeDef(typeDefs, typeDef, forInsert) ==
    IF ~forInsert THEN Append(typeDefs, typeDef) ELSE typeDefs

\* The own keys of an object after obj[key]=value, in the order JSON.stringify
\* lists them: a key the object has keeps its place, a new key comes last.
\* (No table name of the pool is an array index, which would come first.)
ownKeysAfter(keys, key) ==
    IF \E k \in 1..Len(keys) : keys[k] = key THEN keys ELSE Append(keys, key)

\* tableMap with every new key put before the keys the object has.
setTableMap_newKeyFirst(tableMap, forInsert, sqlName, name) ==
    LET first(keys, key) ==
            IF \E k \in 1..Len(keys) : keys[k] = key THEN keys ELSE << key >> \o keys
    IN  [ toName      |-> IF ~forInsert THEN Assign(tableMap.toName, sqlName, name)
                          ELSE tableMap.toName,
          toTable     |-> Assign(tableMap.toTable, name, sqlName),
          toNameKeys  |-> IF ~forInsert THEN first(tableMap.toNameKeys, sqlName)
                          ELSE tableMap.toNameKeys,
          toTableKeys |-> first(tableMap.toTableKeys, name) ]

\* tableMap after lines 518-521; toNameKeys and toTableKeys are the own keys
\* of the two objects in insertion order.
setTableMap(tableMap, forInsert, sqlName, name) ==
    [ toName      |-> IF ~forInsert THEN Assign(tableMap.toName, sqlName, name)
                      ELSE tableMap.toName,
      toTable     |-> Assign(tableMap.toTable, name, sqlName),
      toNameKeys  |-> IF ~forInsert THEN ownKeysAfter(tableMap.toNameKeys, sqlName)
                      ELSE tableMap.toNameKeys,
      toTableKeys |-> ownKeysAfter(tableMap.toTableKeys, name) ]

\* The entry of a source array: {name,baseName,src,type,order}
SrcType(name, baseName, src, type, order) ==
    [ name |-> name, baseName |-> baseName, src |-> src, type |-> type,
      order |-> order, props |-> << >> ]

\* const typeDescription=(s.location && !forInsert)?findComment(sql,s.location,true):undefined
typeDescriptionOf(sql, location, forInsert) ==
    IF location /= 0 /\ ~forInsert THEN findComment(sql, location, TRUE) ELSE undefined

\* The lines tsType.src starts with (lines 543-555).
tsHead(s, forInsert, baseName, typeDescription) ==
    << Line("docOpen", << "/**", NL >>) >>
    \o (IF Truthy(typeDescription)
        THEN << Line("doc", toJsDoc(typeDescription, << >>, TRUE) \o << NL >>) >>
        ELSE << >>)
    \o (IF forInsert
        THEN << Line("insertFor", << " * @insertFor " >> \o baseName \o << NL >>) >>
        ELSE << >>)
    \o << Line("table", << " * @table " >> \o s.name \o << NL >>) >>
    \o (IF Truthy(s.schema)
        THEN << Line("schema", << " * @schema " >> \o s.schema \o << NL >>) >>
        ELSE << >>)
    \o << Line("docClose", << " */", NL >>) >>

\* The lines convoType.src starts with (lines 544-554).
convoHead(s, forInsert, baseName, typeDescription) ==
    (IF Truthy(typeDescription)
     THEN << Line("doc", toConvoComment(typeDescription, << >>) \o << NL >>) >>
     ELSE << >>)
    \o (IF forInsert
        THEN << Line("insertFor", << "# insertFor: " >> \o baseName \o << NL >>) >>
        ELSE << >>)
    \o << Line("table", << "# table: " >> \o s.name \o << NL >>) >>
    \o (IF Truthy(s.schema)
        THEN << Line("schema", << "# schema: " >> \o s.schema \o << NL >>) >>
        ELSE << >>)

\* zodType.src=[...tsType.src]; zodType.src.splice(1,typeDescription?1:0,...)
zodHead(head, name, typeDescription) ==
    splice1(head, IF Truthy(typeDescription) THEN 1 ELSE 0,
            Line("zodTitle", << " * Zod schema for the \"" >> \o name \o << "\" interface", NL >>))

\* The three sources as they are when the loop over the columns begins
\* (lines 543-563).
typeOpen(head, s, forInsert, baseName, name, typeDescription) ==
    [ ts    |-> Append(head, Line("open", << "export interface " >> \o name \o << NL, "{", NL >>)),
      zod   |-> Append(zodHead(head, name, typeDescription),
                       Line("open", << "export const " >> \o name \o << "Schema=z.object({", NL >>)),
      convo |-> Append(convoHead(s, forInsert, baseName, typeDescription),
                       Line("open", name \o << " = struct(", NL >>)),
      props |-> << >> ]

\* After the loop (lines 645-657): the sources are closed and pushed, and
\* the TypeDef is pushed for the read shape.
typeClose(s, forInsert, baseName, name, typeDescription, tableMap, typeDefs, tsTypes, zodTypes, convoTypes, r) ==
    [ tableMap   |-> setTableMap(tableMap, forInsert, s.name, name),
      typeDefs   |-> pushTypeDef(typeDefs,
                         [ name        |-> name,
                           type        |-> "type",
                           description |-> typeDescription,
                           sqlTable    |-> s.name,
                           sqlSchema   |-> s.schema,
                           primaryKey  |-> primaryKeyOf(r.props),
                           props       |-> r.props ],
                         forInsert),
      tsTypes    |-> Append(tsTypes,
                         SrcType(name, baseName, Append(r.ts, Line("close", << "}" >>)), "type", 2)),
      zodTypes   |-> Append(zodTypes,
                         SrcType(name, baseName,
                                 Append(r.zod,
                                        Line("close", << "})" >>
                                            \o (IF Truthy(typeDescription)
                                                THEN << ".describe(" >>
                                                         \o jsonString(typeDescription) \o << ")" >>
                                                ELSE << >>)
                                            \o << ";" >>)),
                                 "type", 2)),
      convoTypes |-> Append(convoTypes,
                         SrcType(name, baseName, Append(r.convo, Line("close", << ")" >>)), "type", 2)) ]

\* createType once the names and the description are known (lines 523-657).
createTypeNamed(s, forInsert, sql, typeMap, tableMap, typeDefs, tsTypes, zodTypes, convoTypes, baseName, name, typeDescription) ==
    typeClose(s, forInsert, baseName, name, typeDescription, tableMap, typeDefs, tsTypes,
              zodTypes, convoTypes,
              createTypeProps(s, forInsert, sql, typeMap, 1,
                  typeOpen(tsHead(s, forInsert, baseName, typeDescription), s, forInsert,
                           baseName, name, typeDescription)))

\* const name=baseName+(forInsert?insertSuffix:'')
typeNameOf(baseName, forInsert, insertSuffix) ==
    baseName \o (IF forInsert THEN insertSuffix ELSE << >>)

createType(s, forInsert, insertSuffix, sql, typeMap, tableMap, typeDefs, tsTypes, zodTypes, convoTypes) ==
    createTypeNamed(s, forInsert, sql, typeMap, tableMap, typeDefs, tsTypes, zodTypes, convoTypes,
                    toTsName(s.name), typeNameOf(toTsName(s.name), forInsert, insertSuffix),
                    typeDescriptionOf(sql, s.location, forInsert))

\* The values of an enum as they are written: JSON.stringify of each.
enumValues(vals) == [k \in 1..Len(vals) |-> jsonString(vals[k])]

\* createEnum once the name, the description and the values are known
\* (lines 694-744).
createEnumNamed(s, typeMap, typeDefs, tsTypes, zodTypes, convoTypes, name, typeDescription, values, doc) ==
    [ typeMap    |-> Assign(typeMap, s.name, [name |-> name, zod |-> name \o << "Schema" >>]),
      typeDefs   |-> Append(typeDefs,
                         [ name        |-> name,
                           type        |-> "enum",
                           description |-> typeDescription,
                           sqlTable    |-> undefined,
                           sqlSchema   |-> undefined,
                           primaryKey  |-> undefined,
                           props       |-> << >> ]),
      tsTypes    |-> Append(tsTypes, SrcType(name, name,
                         (IF Truthy(typeDescription)
                          THEN << Line("docOpen", << "/**", NL >>) >> \o doc
                                   \o << Line("docClose", << " */", NL >>) >>
                          ELSE << >>)
                         \o << Line("open", << "export type " >> \o name \o << "=" >>),
                               Line("values", join(values, << "|" >>)),
                               Line("close", << ";" >>) >>,
                         "enum", 1)),
      zodTypes   |-> Append(zodTypes, SrcType(name, name,
                         << Line("docOpen", << "/**", NL >>) >>
                         \o (IF Truthy(typeDescription) THEN doc ELSE << >>)
                         \o << Line("zodTitle", << " * Zod schema for the \"" >> \o name
                                                   \o << "\" union", NL >>),
                               Line("docClose", << " */", NL >>),
                               Line("open", << "export const " >> \o name
                                               \o << "Schema=z.enum([" >>),
                               Line("values", join(values, << "," >>)),
                               Line("close", << "])" >>
                                   \o (IF Truthy(typeDescription)
                                       THEN << ".describe(" >> \o jsonString(typeDescription)
                                                \o << ")" >>
                                       ELSE << >>)
                                   \o << ";" >>) >>,
                         "enum", 1)),
      convoTypes |-> Append(convoTypes, SrcType(name, name,
                         (IF Truthy(typeDescription)
                          THEN << Line("doc", toConvoComment(typeDescription, << >>)
                                                \o << NL >>) >>
                          ELSE << >>)
                         \o << Line("open", name \o << " = enum(" >>),
                               Line("values", join(values, << " " >>)),
                               Line("close", << ")" >>) >>,
                         "enum", 1)) ]

\* The JSDoc lines of an enum's description.
enumDoc(typeDescription) ==
    << Line("doc", toJsDoc(typeDescription, << >>, TRUE) \o << NL >>) >>

createEnum(s, sql, typeMap, typeDefs, tsTypes, zodTypes, convoTypes) ==
    createEnumNamed(s, typeMap, typeDefs, tsTypes, zodTypes, convoTypes, toTsName(s.name),
                    typeDescriptionOf(sql, s.location, FALSE),
                    enumValues(getPgStrings(s.vals)),
                    enumDoc(typeDescriptionOf(sql, s.location, FALSE)))

\* order.toString().padStart(3,'0') for an order below 10.
padStart3(order) == << "0", "0", DigitChars[order + 1] >>

\* srcTypeOrderName with the order of the kind left out.
srcTypeOrderName_byName(type) == type.baseName

\* srcTypeOrderName with the name of the shape in place of the base name.
srcTypeOrderName_shapeName(type) == padStart3(type.order) \o << "_" >> \o type.name

srcTypeOrderName(type) == padStart3(type.order) \o << "_" >> \o type.baseName

\* types.sort((a,b)=>srcTypeOrderName(a).localeCompare(srcTypeOrderName(b)))
sortTypes(types) ==
    sortByKeys(types, [k \in 1..Len(types) |-> srcTypeOrderName(types[k])])

\* types.map(t=>t.src.join('')).join('\n\n') of the sorted types
typesToString(types) ==
    LET sorted == sortTypes(types)
    IN  join([k \in 1..Len(sorted) |->
                 join([j \in 1..Len(sorted[k].src) |-> sorted[k].src[j].s], << >>)],
             << NL, NL >>)

\* obj.sort((a,b)=>a.name.localeCompare(b.name)) of sortObj
sortByName(ary) == sortByKeys(ary, [k \in 1..Len(ary) |-> ary[k].name])

\* sortObj with the props of the TypeDefs left as they are.
sortObj_typesOnly(typeDefs) == sortByName(typeDefs)

\* sortObj(typeDefs): every TypeDef's props are sorted by name, then the
\* TypeDefs are.  (A record has no key order: the reordering of the keys is
\* not part of this value.)
sortObj(typeDefs) ==
    sortByName([k \in 1..Len(typeDefs) |->
                   [typeDefs[k] EXCEPT !.props = sortByName(typeDefs[k].props)]])

\* typeDefs.map(t=>({...t,props:t.props?.map(p=>p.name)}))
typeListShort(typeDefs) ==
    [k \in 1..Len(typeDefs) |->
        [typeDefs[k] EXCEPT !.props = [j \in 1..Len(typeDefs[k].props) |->
                                           typeDefs[k].props[j].name]]]

\* The text createTypeDescriptionFile gives for the table types tt, by
\* part: the names of the two import lists (lines 381-382), the entries of
\* typeDefs (428-440) and the names of typeList (445-447).
typeDescriptionText(tt) ==
    [ importTypes   |-> [k \in 1..(2 * Len(tt)) |->
                            IF k % 2 = 1 THEN tt[(k + 1) \div 2].name
                            ELSE tt[k \div 2].name \o S_insert],
      importSchemas |-> [k \in 1..(2 * Len(tt)) |->
                            IF k % 2 = 1 THEN tt[(k + 1) \div 2].name \o << "Schema" >>
                            ELSE tt[k \div 2].name \o S_insert \o << "Schema" >>],
      typeDefs      |-> [k \in 1..Len(tt) |->
                            [ key             |-> tt[k].name,
                              json            |-> tt[k],
                              zodSchema       |-> tt[k].name \o << "Schema" >>,
                              zodInsertSchema |-> tt[k].name \o S_insert \o << "Schema" >>,
                              asTypeDef       |-> << tt[k].name, tt[k].name \o S_insert >> ]],
      typeList      |-> [k \in 1..Len(tt) |-> tt[k].name] ]

\* const tt=types.filter(t=>t.type==='type'); ...
createTypeDescriptionFile(types) ==
    typeDescriptionText(SelectSeq(types, LAMBDA t : t.type = "type"))

(***************************************************************************)
(* The run of main.                                                          *)
(***************************************************************************)

\* The contents of the type map files the runs are given.
F_uuid == (S_uuid :> [name |-> << "string" >>, zod |-> << "z.string().uuid()" >>])

F_upper == (S_UUID :> [name |-> << "Uuid" >>]) @@ (S_int4 :> [ts |-> << "bigint" >>])

F_int4 ==
    (S_int4 :> [zod |-> << "z.bigint()" >>, sql |-> S_int8]) @@ (S_UUID :> [name |-> << "UUID" >>])

\* The paths the command lines name.
P_schema == << "schema.sql" >>
P_uuid == << "uuid.json" >>
P_upper == << "upper.json" >>
P_int4 == << "int4.json" >>
P_array == << "array.json" >>
P_null == << "null.json" >>
P_text == << "text.json" >>
P_broken == << "broken.json" >>
P_missing == << "missing" >>

\* The files on disk, by path; P_missing is no file.  The text of a JSON
\* file is written as the value JSON.parse gives for it, a text that is not
\* JSON as the value "invalid".
JsonFiles ==
    (P_uuid :> [json |-> "object", value |-> F_uuid])
    @@ (P_upper :> [json |-> "object", value |-> F_upper])
    @@ (P_int4 :> [json |-> "object", value |-> F_int4])
    @@ (P_array :> [json |-> "array", value |-> << F_uuid[S_uuid], F_upper[S_UUID] >>])
    @@ (P_null :> [json |-> "null"])
    @@ (P_text :> [json |-> "string", value |-> S_text])
    @@ (P_broken :> [json |-> "invalid"])

\* readStringAsync: the text of the file, or the error thrown.
readStringAsync(files, path) ==
    IF path \in DOMAIN files THEN [value |-> files[path]]
    ELSE [error |-> << "Unable to read file at path: " >> \o path]

\* readJsonAsync with a text that is not JSON read as an empty object.
readJsonAsync_lenient(files, path) ==
    IF path \notin DOMAIN files \/ files[path].json = "invalid"
    THEN [value |-> [json |-> "object", value |-> EmptyObject]]
    ELSE [value |-> files[path]]

\* readJsonAsync: the value parsed, or the error thrown.
readJsonAsync(files, path) ==
    IF "error" \in DOMAIN readStringAsync(files, path) THEN readStringAsync(files, path)
    ELSE IF readStringAsync(files, path).value.json = "invalid"
         THEN [error |-> << "Unable to parse JSON contents of: " >> \o path]
         ELSE readStringAsync(files, path)

\* !map || (typeof map !== 'object'): null is falsy; an array is an object.
notJsonObject(map) == map.json \notin { "object", "array" }

\* The keys for(const type in map) enumerates, with map[type]: the keys of an
\* object, the indexes of an array.
entriesOf(map) ==
    IF map.json = "array"
    THEN [key \in { << DigitChars[i] >> : i \in 1..Len(map.value) } |->
             map.value[CHOOSE i \in 1..Len(map.value) : << DigitChars[i] >> = key]]
    ELSE map.value

\* The command lines the runs are given, as parseArgs returns them; each
\* also names the directory of the outputs (--out), so that every artifact
\* is requested.
ArgsChoices ==
    { [sqlFileAry |-> << P_schema >>],
      [sqlFileAry |-> << P_schema >>, insertSuffix |-> S_Insertion],
      [sqlFileAry |-> << P_schema >>, clearTypeMap |-> << "true" >>],
      [sqlFileAry |-> << P_schema >>, typeMapFileAry |-> << P_uuid >>],
      [sqlFileAry |-> << P_schema >>, clearTypeMap |-> << "true" >>,
       typeMapFileAry |-> << P_upper, P_uuid >>],
      [sqlFileAry |-> << P_schema >>, typeMapFileAry |-> << P_upper, P_int4 >>],
      [sqlFileAry |-> << P_schema >>, typeMapFileAry |-> << P_uuid, P_array >>],
      [sqlFileAry |-> << P_schema >>, typeMapFileAry |-> << P_null >>],
      [sqlFileAry |-> << P_schema >>, typeMapFileAry |-> << P_text, P_uuid >>],
      [sqlFileAry |-> << P_schema >>, typeMapFileAry |-> << P_uuid, P_broken >>],
      [sqlFileAry |-> << P_schema >>, typeMapFileAry |-> << P_missing >>],
      [sqlFileAry |-> << P_schema, P_missing >>, typeMapFileAry |-> << P_uuid >>] }

\* The number of declarations of a source.
MaxStmts == 2

\* The sequences of at most n different elements of S.
RECURSIVE SeqsUpTo(_, _)
SeqsUpTo(S, n) ==
    IF n = 0 THEN { << >> }
    ELSE LET shorter == SeqsUpTo(S, n - 1)
         IN  shorter \cup UNION { { Append(q, e) : e \in S \ { q[k] : k \in 1..Len(q) } } :
                                     q \in { r \in shorter : Len(r) = n - 1 } }

Sources ==
    { SourceOf(ds) : ds \in SeqsUpTo(Declarations, MaxStmts)
                             \cup SeqsUpTo(QualifiedDeclarations, MaxStmts)
                             \cup SeqsUpTo(SameLineDeclarations, MaxStmts) }

\* The number of declarations of a source that is read under a command line
\* with options.
MaxOptionStmts == 1

\* The sources the runs of a command line read: the longer ones go with the
\* command line that has no option.
SourcesFor(a) ==
    IF DOMAIN a = { "sqlFileAry" } THEN Sources
    ELSE { SourceOf(ds) : ds \in SeqsUpTo(Declarations, MaxOptionStmts) }

VARIABLES
    args,        \* the parsed command line
    sql,         \* the concatenated source text
    statements,  \* parsedSql.stmts
    pc,          \* where main is
    fi,          \* index into args.typeMapFileAry
    si,          \* index into statements of the loop main is in
    typeMap, tableMap, typeDefs, tsTypes, zodTypes, convoTypes,
    out,         \* the contents written, by kind of artifact
    error,       \* the error main has thrown
    dirs,        \* the directories on disk
    written,     \* the contents of the files written, by path
    task,        \* where each write of a path is, by output and index
    call         \* the call of a function of utils.js that is examined alone

vars == << args, sql, statements, pc, fi, si, typeMap, tableMap, typeDefs,
           tsTypes, zodTypes, convoTypes, out, error, dirs, written, task, call >>

\* What the steps of the writes change, and what no step of main does.
ioVars == << dirs, written, task, call >>

Init ==
    /\ args \in ArgsChoices
    /\ \E src \in SourcesFor(args) : sql = src.sql /\ statements = src.stmts
    /\ pc = "start"
    /\ fi = 1
    /\ si = 1
    /\ typeMap = EmptyObject
    /\ tableMap = [toName |-> EmptyObject, toTable |-> EmptyObject,
                   toNameKeys |-> << >>, toTableKeys |-> << >>]
    /\ typeDefs = << >>
    /\ tsTypes = << >>
    /\ zodTypes = << >>
    /\ convoTypes = << >>
    /\ out = EmptyObject
    /\ error = undefined
    /\ dirs = {}
    /\ written = EmptyObject
    /\ task = EmptyObject
    /\ call = Nothing

typeMapFiles == IF "typeMapFileAry" \in DOMAIN args THEN args.typeMapFileAry ELSE << >>

sqlFiles == IF "sqlFileAry" \in DOMAIN args THEN args.sqlFileAry ELSE << >>

\* The files on disk: the type map files, and the source file with its text.
Files == JsonFiles @@ (P_schema :> sql)

\* let typeMap=args.clearTypeMap==='true'?{}:{...defaultTypeMap}
InitTypeMap ==
    /\ pc = "start"
    /\ typeMap' = IF Get(args, "clearTypeMap") = << "true" >> THEN EmptyObject
                  ELSE defaultTypeMap
    /\ pc' = "typeMap"
    /\ UNCHANGED << args, sql, statements, fi, si, tableMap, typeDefs, tsTypes,
                    zodTypes, convoTypes, out, error, ioVars >>

\* What one iteration of the loop over args.typeMapFileAry does with what
\* readJsonAsync gave: it throws, or merges the file into the type map.
typeMapFileStep(map, typeMapBefore) ==
    IF "error" \in DOMAIN map THEN [error |-> map.error]
    ELSE IF notJsonObject(map.value)
         THEN [error |-> << "type map file should contain a JSON object" >>]
         ELSE [typeMap |-> mergeTypeMap(typeMapBefore, entriesOf(map.value))]

\* One iteration of the loop over args.typeMapFileAry.
MergeTypeMapFile ==
    /\ pc = "typeMap"
    /\ fi <= Len(typeMapFiles)
    /\ "typeMap" \in DOMAIN typeMapFileStep(readJsonAsync(Files, typeMapFiles[fi]), typeMap)
    /\ typeMap' = typeMapFileStep(readJsonAsync(Files, typeMapFiles[fi]), typeMap).typeMap
    /\ fi' = fi + 1
    /\ UNCHANGED << args, sql, statements, pc, si, tableMap, typeDefs, tsTypes,
                    zodTypes, convoTypes, out, error, ioVars >>

\* The iteration throws: main ends with the error.
FailTypeMapFile ==
    /\ pc = "typeMap"
    /\ fi <= Len(typeMapFiles)
    /\ "error" \in DOMAIN typeMapFileStep(readJsonAsync(Files, typeMapFiles[fi]), typeMap)
    /\ error' = typeMapFileStep(readJsonAsync(Files, typeMapFiles[fi]), typeMap).error
    /\ pc' = "failed"
    /\ UNCHANGED << args, sql, statements, fi, si, typeMap, tableMap, typeDefs, tsTypes,
                    zodTypes, convoTypes, out, ioVars >>

\* The texts readStringAsync gives for the paths of args.sqlFileAry, up to
\* the first it throws on.
RECURSIVE readSqlFiles(_, _, _)
readSqlFiles(files, paths, sqlAry) ==
    IF paths = << >> THEN [sqlAry |-> sqlAry]
    ELSE IF "error" \in DOMAIN readStringAsync(files, Head(paths))
         THEN readStringAsync(files, Head(paths))
         ELSE readSqlFiles(files, Tail(paths),
                           Append(sqlAry, readStringAsync(files, Head(paths)).value))

\* The sources are read, joined and parsed, and the tree the parser gave is
\* written (lines 221-265).
ParseSql ==
    /\ pc = "typeMap"
    /\ fi > Len(typeMapFiles)
    /\ "sqlAry" \in DOMAIN readSqlFiles(Files, sqlFiles, << >>)
    /\ sql' = join(readSqlFiles(Files, sqlFiles, << >>).sqlAry, << NL, NL >>)
    /\ out' = [parsedSql |-> statements]
    /\ pc' = "enums"
    /\ si' = 1
    /\ UNCHANGED << args, statements, fi, typeMap, tableMap, typeDefs, tsTypes,
                    zodTypes, convoTypes, error, ioVars >>

\* readStringAsync throws on a source file: main ends with the error.
FailReadSql ==
    /\ pc = "typeMap"
    /\ fi > Len(typeMapFiles)
    /\ "error" \in DOMAIN readSqlFiles(Files, sqlFiles, << >>)
    /\ error' = readSqlFiles(Files, sqlFiles, << >>).error
    /\ pc' = "failed"
    /\ UNCHANGED << args, sql, statements, fi, si, typeMap, tableMap, typeDefs, tsTypes,
                    zodTypes, convoTypes, out, ioVars >>

\* One iteration of the first loop over statements, on an enum declaration.
CreateEnum ==
    /\ pc = "enums"
    /\ si <= Len(statements)
    /\ ~IsNothing(getPgCreateEnum(statements[si]))
    /\ LET r == createEnum(getPgCreateEnum(statements[si]), sql, typeMap, typeDefs,
                           tsTypes, zodTypes, convoTypes)
       IN  /\ typeMap' = r.typeMap
           /\ typeDefs' = r.typeDefs
           /\ tsTypes' = r.tsTypes
           /\ zodTypes' = r.zodTypes
           /\ convoTypes' = r.convoTypes
    /\ si' = si + 1
    /\ UNCHANGED << args, sql, statements, pc, fi, tableMap, out, error, ioVars >>

\* One iteration of the first loop, on any other statement: continue.
SkipNonEnum ==
    /\ pc = "enums"
    /\ si <= Len(statements)
    /\ IsNothing(getPgCreateEnum(statements[si]))
    /\ si' = si + 1
    /\ UNCHANGED << args, sql, statements, pc, fi, typeMap, tableMap, typeDefs,
                    tsTypes, zodTypes, convoTypes, out, error, ioVars >>

\* The first loop ends, the second begins.
EnumsDone ==
    /\ pc = "enums"
    /\ si > Len(statements)
    /\ pc' = "tables"
    /\ si' = 1
    /\ UNCHANGED << args, sql, statements, fi, typeMap, tableMap, typeDefs,
                    tsTypes, zodTypes, convoTypes, out, error, ioVars >>

CreateTypeStep(forInsert) ==
    LET r == createType(getPgCreateTable(statements[si]), forInsert, insertSuffixOf(args),
                        sql, typeMap, tableMap, typeDefs, tsTypes, zodTypes, convoTypes)
    IN  /\ tableMap' = r.tableMap
        /\ typeDefs' = r.typeDefs
        /\ tsTypes' = r.tsTypes
        /\ zodTypes' = r.zodTypes
        /\ convoTypes' = r.convoTypes

\* The second loop on a table declaration: createType(c,false,...)
CreateReadType ==
    /\ pc = "tables"
    /\ si <= Len(statements)
    /\ ~IsNothing(getPgCreateTable(statements[si]))
    /\ CreateTypeStep(FALSE)
    /\ pc' = "insertType"
    /\ UNCHANGED << args, sql, statements, fi, si, typeMap, out, error, ioVars >>

\* ... followed by createType(c,true,...)
CreateInsertType ==
    /\ pc = "insertType"
    /\ CreateTypeStep(TRUE)
    /\ pc' = "tables"
    /\ si' = si + 1
    /\ UNCHANGED << args, sql, statements, fi, typeMap, out, error, ioVars >>

\* The second loop on any other statement: continue.
SkipNonTable ==
    /\ pc = "tables"
    /\ si <= Len(statements)
    /\ IsNothing(getPgCreateTable(statements[si]))
    /\ si' = si + 1
    /\ UNCHANGED << args, sql, statements, pc, fi, typeMap, tableMap, typeDefs,
                    tsTypes, zodTypes, convoTypes, out, error, ioVars >>

\* The second loop ends: sortObj(typeDefs)
SortTypeDefs ==
    /\ pc = "tables"
    /\ si > Len(statements)
    /\ typeDefs' = sortObj(typeDefs)
    /\ pc' = "write"
    /\ UNCHANGED << args, sql, statements, fi, si, typeMap, tableMap, tsTypes,
                    zodTypes, convoTypes, out, error, ioVars >>

\* The contents handed to writeAryAsync (lines 289-307); typesToString sorts
\* its argument in place.
WriteArtifacts ==
    /\ pc = "write"
    /\ tsTypes' = sortTypes(tsTypes)
    /\ zodTypes' = sortTypes(zodTypes)
    /\ convoTypes' = sortTypes(convoTypes)
    /\ out' = [ parsedSql     |-> out.parsedSql,
                ts            |-> typesToString(tsTypes),
                typeList      |-> typeDefs,
                typeListShort |-> typeListShort(typeDefs),
                tsTypeDef     |-> createTypeDescriptionFile(typeDefs),
                zod           |-> << "import { z } from \"zod\";", NL, NL >>
                                      \o typesToString(zodTypes),
                convo         |-> << "> define", NL, NL >> \o typesToString(convoTypes),
                typeMap       |-> typeMap,
                tableMap      |-> tableMap ]
    /\ pc' = "done"
    /\ UNCHANGED << args, sql, statements, fi, si, typeMap, tableMap, typeDefs, error, ioVars >>

Next ==
    \/ InitTypeMap
    \/ MergeTypeMapFile
    \/ FailTypeMapFile
    \/ ParseSql
    \/ FailReadSql
    \/ CreateEnum
    \/ SkipNonEnum
    \/ EnumsDone
    \/ CreateReadType
    \/ CreateInsertType
    \/ SkipNonTable
    \/ SortTypeDefs
    \/ WriteArtifacts

Spec == Init /\ [][Next]_vars

(***************************************************************************)
(* The writes of main, step by step: main from line 244 on, for command     *)
(* lines that name the outputs one by one.  A path is the pair of its       *)
(* directory (Path.dirname) and its file name; the content written to it is *)
(* named by the argument that asked for it.                                 *)
(***************************************************************************)

WriteArgsChoices ==
    { [parsedSqlOutAry |-> << << "dir", "sql.json" >> >>,
       tsOutAry |-> << << "dir", "types.ts" >>, << ".", "types.ts" >> >>,
       zodOutAry |-> << << "gen", "zod.ts" >> >>,
       tsSchemaBarrelOutAry |-> << << ".", "dir.ts" >> >>],
      [tsOutAry |-> << << "dir", "types.ts" >> >>,
       typeListOutAry |-> << << "dir", "list.json" >> >>,
       convoOutAry |-> << << "dir", "types.convo" >> >>,
       tsTableMapOutAry |-> << << "gen", "table-map.ts" >> >>],
      \* test.sh: --type-map-out tmp/type-map.json given twice
      [typeMapOutAry |-> << << "tmp", "type-map.json" >>, << "tmp", "type-map.json" >> >>,
       tableMapOutAry |-> << << "tmp", "table-map.json" >> >>] }

\* The arguments of the writes of Promise.all (lines 290-306).
parallelOuts ==
    { "tsOutAry", "typeListOutAry", "typeListShortOutAry", "tsTypeDefOutAry", "zodOutAry",
      "convoOutAry", "typeMapOutAry", "tableMapOutAry", "tsTableMapOutAry" }

\* The writes of the outputs named that the command line asks for, one for
\* each path: paths.map(async path=>...)
tasksOf(a, keys) ==
    UNION { { << key, k >> : k \in 1..Len(a[key]) } : key \in keys \cap DOMAIN a }

pathOf(a, t) == a[t[1]][t[2]]

dirname(path) == path[1]

\* The arguments in the order of the array handed to Promise.all.
parallelOrder ==
    << "tsOutAry", "typeListOutAry", "typeListShortOutAry", "tsTypeDefOutAry", "zodOutAry",
       "convoOutAry", "typeMapOutAry", "tableMapOutAry", "tsTableMapOutAry" >>

\* The elements of that array that are evaluated next: those of the outputs
\* the command line asks for whose text is not rendered yet.
toRender(a, rendered) ==
    { k \in 1..Len(parallelOrder) :
          parallelOrder[k] \in DOMAIN a /\ parallelOrder[k] \notin DOMAIN rendered }

\* The text of an output, named by the argument that asks for it.
render(rendered, key) == Assign(rendered, key, key)

\* The write of a path up to its first await: of existsAsync(dir), or of
\* fs.writeFile when dir is '.'.
startTask(path) ==
    IF dirname(path) /= "" /\ dirname(path) /= "." THEN "access" ELSE "writeFile"

\* writeAryAsync called for every output of the command line at once.
writeAryAsync_all(a, keys, tasks) ==
    [t \in DOMAIN tasks \cup tasksOf(a, DOMAIN a) |->
        IF t \in DOMAIN tasks THEN tasks[t] ELSE startTask(pathOf(a, t))]

\* writeAryAsync(paths,content) for each output named, up to the first
\* await of each of its paths.
writeAryAsync(a, keys, tasks) ==
    [t \in DOMAIN tasks \cup tasksOf(a, keys) |->
        IF t \in tasksOf(a, keys) THEN startTask(pathOf(a, t)) ELSE tasks[t]]

\* Promise.all taken as fulfilled once one of the promises is.
promiseAll_any(tasks, awaited) == awaited = {} \/ \E t \in awaited : tasks[t] = "done"

\* await Promise.all(...): every write awaited is done.
promiseAll(tasks, awaited) == \A t \in awaited : tasks[t] = "done"

\* main at line 244: the sources are parsed.
InitWrite ==
    /\ args \in WriteArgsChoices
    /\ sql = << >>
    /\ statements = << >>
    /\ pc = "parsed"
    /\ fi = 1
    /\ si = 1
    /\ typeMap = defaultTypeMap
    /\ tableMap = [toName |-> EmptyObject, toTable |-> EmptyObject,
                   toNameKeys |-> << >>, toTableKeys |-> << >>]
    /\ typeDefs = << >>
    /\ tsTypes = << >>
    /\ zodTypes = << >>
    /\ convoTypes = << >>
    /\ out = EmptyObject
    /\ error = undefined
    /\ dirs \in { {}, { "dir" } }
    /\ written = EmptyObject
    /\ task = EmptyObject
    /\ call = Nothing

\* What neither a write nor a call of a function alone changes.
mainVars ==
    << args, sql, statements, fi, si, typeMap, tableMap, typeDefs, tsTypes, zodTypes,
       convoTypes, out, error >>

runVars == << mainVars, call >>

\* The variables of main but the texts rendered.
buildVars ==
    << args, sql, statements, fi, si, typeMap, tableMap, typeDefs, tsTypes, zodTypes,
       convoTypes, error, call >>

\* if(args.parsedSqlOutAry){ await writeAryAsync(args.parsedSqlOutAry,...) }
WriteParsedSql ==
    /\ pc = "parsed"
    /\ out' = IF "parsedSqlOutAry" \in DOMAIN args THEN render(out, "parsedSqlOutAry")
              ELSE out
    /\ task' = writeAryAsync(args, { "parsedSqlOutAry" }, task)
    /\ pc' = "dump"
    /\ UNCHANGED << buildVars, dirs, written >>

\* The dump is written: the types are built (lines 249-285, the steps of Spec
\* from the first loop on).
BuildTypes ==
    /\ pc = "dump"
    /\ promiseAll(task, tasksOf(args, { "parsedSqlOutAry" }))
    /\ pc' = "render"
    /\ UNCHANGED << runVars, ioVars >>

\* One element of the array of Promise.all is evaluated: the text of the next
\* output asked for is rendered and writeAryAsync is called with it, which
\* runs up to the first await of each path.
WriteNext ==
    /\ pc = "render"
    /\ toRender(args, out) /= {}
    /\ LET k   == CHOOSE k \in toRender(args, out) : \A j \in toRender(args, out) : k <= j
           key == parallelOrder[k]
       IN  /\ out' = render(out, key)
           /\ task' = writeAryAsync(args, { key }, task)
    /\ UNCHANGED << buildVars, pc, dirs, written >>

\* await Promise.all([...]): the array is built, every write of it is begun.
WriteAll ==
    /\ pc = "render"
    /\ toRender(args, out) = {}
    /\ pc' = "scatter"
    /\ UNCHANGED << runVars, ioVars >>

\* await Promise.all([...]) returns: the barrel file is written last.
WriteBarrel ==
    /\ pc = "scatter"
    /\ promiseAll(task, tasksOf(args, parallelOuts))
    /\ out' = IF "tsSchemaBarrelOutAry" \in DOMAIN args
              THEN render(out, "tsSchemaBarrelOutAry") ELSE out
    /\ task' = writeAryAsync(args, { "tsSchemaBarrelOutAry" }, task)
    /\ pc' = "barrel"
    /\ UNCHANGED << buildVars, dirs, written >>

\* The write of the barrel file returns, and main with it.
Return ==
    /\ pc = "barrel"
    /\ promiseAll(task, tasksOf(args, { "tsSchemaBarrelOutAry" }))
    /\ pc' = "done"
    /\ UNCHANGED << runVars, dirs, written, task >>

\* existsAsync(dir): fs.access tells whether the directory is there.
Access(t) ==
    /\ task[t] = "access"
    /\ task' = [task EXCEPT ![t] = IF dirname(pathOf(args, t)) \in dirs THEN "writeFile"
                                   ELSE "mkdir"]
    /\ UNCHANGED << runVars, pc, dirs, written >>

\* fs.mkdir(dir) without recursive, which fails when the directory is there.
Mkdir_existing(t) ==
    /\ pc /= "render"
    /\ task[t] = "mkdir"
    /\ dirs' = dirs \cup { dirname(pathOf(args, t)) }
    /\ task' = [task EXCEPT ![t] = IF dirname(pathOf(args, t)) \in dirs THEN "failed"
                                   ELSE "writeFile"]
    /\ UNCHANGED << runVars, pc, written >>

\* fs.mkdir(dir,{recursive:true}), called when main awaits: the code after an
\* await does not run while main evaluates the array of Promise.all.
Mkdir(t) ==
    /\ pc /= "render"
    /\ task[t] = "mkdir"
    /\ dirs' = dirs \cup { dirname(pathOf(args, t)) }
    /\ task' = [task EXCEPT ![t] = "writeFile"]
    /\ UNCHANGED << runVars, pc, written >>

\* fs.writeFile(path,content): the content is the text rendered for the
\* output when writeAryAsync was called.
WriteFile(t) ==
    /\ pc /= "render"
    /\ task[t] = "writeFile"
    /\ written' = Assign(written, pathOf(args, t), out[t[1]])
    /\ task' = [task EXCEPT ![t] = "done"]
    /\ UNCHANGED << runVars, pc, dirs >>

AccessStep == \E t \in DOMAIN task : Access(t)

MkdirStep == \E t \in DOMAIN task : Mkdir(t)

WriteFileStep == \E t \in DOMAIN task : WriteFile(t)

NextWrite ==
    \/ WriteParsedSql
    \/ BuildTypes
    \/ WriteNext
    \/ WriteAll
    \/ WriteBarrel
    \/ Return
    \/ AccessStep
    \/ MkdirStep
    \/ WriteFileStep

SpecWrite == InitWrite /\ [][NextWrite]_vars

(***************************************************************************)
(* findComment of utils.js, called alone on a text, an offset and a        *)
(* direction.                                                               *)
(***************************************************************************)

\* The number of lines of a text findComment is called on.
MaxLines == 3

\* The lines of those texts: three comment lines (one space after the marker,
\* none, two), a blank line, a line of code.
TextLines ==
    { << "-", "-", " ", "a" >>, << "-", "-", "b" >>, << "-", "-", " ", " ", "c" >>,
      << >>, << "x" >> }

RECURSIVE LinesUpTo(_)
LinesUpTo(n) ==
    IF n = 0 THEN { << >> }
    ELSE LET shorter == LinesUpTo(n - 1)
         IN  shorter \cup { Append(q, l) : q \in { r \in shorter : Len(r) = n - 1 },
                                             l \in TextLines }

\* The texts: the lines joined, with and without a newline after the last.
Texts ==
    { join(ls, << NL >>) \o end :
          ls \in LinesUpTo(MaxLines) \ { << >> }, end \in { << >>, << NL >> } }

InitCall ==
    /\ \E text \in Texts, statementStart \in 0..(2 * MaxLines + 4), forward \in BOOLEAN :
           /\ statementStart <= Len(text)
           /\ call = [sql |-> text, statementStart |-> statementStart, forward |-> forward]
    /\ pc = "call"
    /\ args = EmptyObject /\ sql = << >> /\ statements = << >>
    /\ fi = 1 /\ si = 1
    /\ typeMap = EmptyObject
    /\ tableMap = [toName |-> EmptyObject, toTable |-> EmptyObject,
                   toNameKeys |-> << >>, toTableKeys |-> << >>]
    /\ typeDefs = << >> /\ tsTypes = << >> /\ zodTypes = << >> /\ convoTypes = << >>
    /\ out = EmptyObject
    /\ error = undefined
    /\ dirs = {} /\ written = EmptyObject /\ task = EmptyObject

\* return lines.length?lines.join('\n').trim():undefined
CallFindComment ==
    /\ pc = "call"
    /\ call' = [sql |-> call.sql, statementStart |-> call.statementStart,
                forward |-> call.forward,
                comment |-> findComment(call.sql, call.statementStart, call.forward)]
    /\ pc' = "returned"
    /\ UNCHANGED << mainVars, dirs, written, task >>

NextCall == CallFindComment

SpecCall == InitCall /\ [][NextCall]_vars

(***************************************************************************)
(* findComment of utils.js, one iteration of its loop at a time.  call      *)
(* holds the arguments, the scan index i and the lines collected.           *)
(***************************************************************************)

\* The index found before the loop (line 136): -1 makes findComment return.
firstIndex(text, statementStart, forward) ==
    IF forward THEN statementStart ELSE lastIndexOf(text, NL, statementStart)

\* The scan index the loop starts with (lines 140-146).
findCommentStart(text, i0, forward) ==
    LET i1 == IF substring(text, i0, 1) = << ";" >> THEN i0 + 1 ELSE i0
    IN  IF ~forward THEN i1 - 1 ELSE i1

\* while(i>-1 && i<=sql.length)
inBuffer(text, i) == i > -1 /\ i <= Len(text)

\* const s=forward?sql.indexOf('\n',i+1):sql.lastIndexOf('\n',i)
nextBreak(text, i, forward) ==
    IF forward THEN indexOf(text, NL, i + 1) ELSE lastIndexOf(text, NL, i)

\* let line=(forward?sql.substring(i,s).trim():sql.substring(s,i+1).trim())
scannedLine(text, i, s, forward) ==
    IF forward THEN trim(substring(text, i, s)) ELSE trim(substring(text, s, i + 1))

\* if(s===-1) break; ... if(line && !line.startsWith('--')) break;
breaks(s, line) == s = -1 \/ (line /= << >> /\ ~startsWith(line, << "-", "-" >>))

\* line=line.startsWith('-- ')?line.substring(3):line.substring(2)
unmarked(line) ==
    IF startsWith(line, << "-", "-", " " >>) THEN substringFrom(line, 3)
    ELSE substringFrom(line, 2)

\* The scan index after an iteration, with the backward scan left on the
\* line break found.
nextIndex_stay(s, forward) == IF forward THEN s + 1 ELSE s

\* if(forward){ i=s+1 }else{ i=s-1 }
nextIndex(s, forward) == IF forward THEN s + 1 ELSE s - 1

LoopCall(text, statementStart, forward, i, lines, comment) ==
    [sql |-> text, statementStart |-> statementStart, forward |-> forward,
     i |-> i, lines |-> lines, comment |-> comment]

InitLoop ==
    /\ \E text \in Texts, statementStart \in 0..(2 * MaxLines + 4), forward \in BOOLEAN :
           /\ statementStart <= Len(text)
           /\ call = LoopCall(text, statementStart, forward, -1, << >>, undefined)
    /\ pc = "call"
    /\ args = EmptyObject /\ sql = << >> /\ statements = << >>
    /\ fi = 1 /\ si = 1
    /\ typeMap = EmptyObject
    /\ tableMap = [toName |-> EmptyObject, toTable |-> EmptyObject,
                   toNameKeys |-> << >>, toTableKeys |-> << >>]
    /\ typeDefs = << >> /\ tsTypes = << >> /\ zodTypes = << >> /\ convoTypes = << >>
    /\ out = EmptyObject
    /\ error = undefined
    /\ dirs = {} /\ written = EmptyObject /\ task = EmptyObject

\* Lines 136-146: the scan index is set, or findComment returns undefined.
EnterFindComment ==
    /\ pc = "call"
    /\ \E i0 \in { firstIndex(call.sql, call.statementStart, call.forward) } :
           IF i0 = -1
           THEN pc' = "returned" /\ call' = call
           ELSE /\ pc' = "loop"
                /\ call' = [call EXCEPT !.i = findCommentStart(call.sql, i0, call.forward)]
    /\ UNCHANGED << mainVars, dirs, written, task >>

\* One iteration of the loop that does not break (lines 148-169).
IterateFindComment ==
    /\ pc = "loop"
    /\ inBuffer(call.sql, call.i)
    /\ \E s \in { nextBreak(call.sql, call.i, call.forward) } :
       \E line \in { scannedLine(call.sql, call.i, s, call.forward) } :
           /\ ~breaks(s, line)
           /\ call' = [call EXCEPT !.i = nextIndex(s, call.forward),
                                   !.lines = IF call.forward
                                             THEN Append(call.lines, unmarked(line))
                                             ELSE << unmarked(line) >> \o call.lines]
    /\ UNCHANGED << mainVars, pc, dirs, written, task >>

\* The loop is left, by its condition or by a break, and findComment
\* returns (lines 171-174).
LeaveFindComment ==
    /\ pc = "loop"
    /\ \/ ~inBuffer(call.sql, call.i)
       \/ \E s \in { nextBreak(call.sql, call.i, call.forward) } :
              breaks(s, scannedLine(call.sql, call.i, s, call.forward))
    /\ \E lines \in { popBlankLines(call.lines) } :
           call' = [call EXCEPT !.lines = lines,
                                !.comment = IF Len(lines) > 0 THEN trim(join(lines, << NL >>))
                                            ELSE undefined]
    /\ pc' = "returned"
    /\ UNCHANGED << mainVars, dirs, written, task >>

NextLoop == EnterFindComment \/ IterateFindComment \/ LeaveFindComment

\* findComment is synchronous: once called it runs until it returns.
SpecLoop == InitLoop /\ [][NextLoop]_vars /\ WF_vars(NextLoop)

(***************************************************************************)
(* sortObj of part_002, called alone on a nested value.  A value is a      *)
(* string, null, an object or an array; an object is the list of its own   *)
(* properties in the order JavaScript enumerates them, an array the list of *)
(* its elements.                                                            *)
(***************************************************************************)

Str(s) == [t |-> "string", s |-> s, items |-> << >>]
Null == [t |-> "null", s |-> << >>, items |-> << >>]
Obj(items) == [t |-> "object", s |-> << >>, items |-> items]
Ary(els) == [t |-> "array", s |-> << >>,
             items |-> [i \in 1..Len(els) |-> [k |-> << >>, v |-> els[i]]]]

K_name == << "n", "a", "m", "e" >>

\* The UTF-16 code unit order of the characters of the keys: digits, upper
\* case letters, the underscore, lower case letters.
CodeUnit(c) == PosIn(DigitChars \o UpperLetters \o << "_" >> \o LowerLetters, c)

\* The comparison of the default Array.prototype.sort(): by code units.
compareCodeUnits(a, b) ==
    LET n  == IF Len(a) < Len(b) THEN Len(a) ELSE Len(b)
        df == { k \in 1..n : a[k] /= b[k] }
    IN  IF df = {} THEN (IF Len(a) < Len(b) THEN -1 ELSE IF Len(a) > Len(b) THEN 1 ELSE 0)
        ELSE LET k == CHOOSE k \in df : \A j \in df : k <= j
             IN  IF CodeUnit(a[k]) < CodeUnit(b[k]) THEN -1 ELSE 1

\* Array.prototype.sort((a,b)=>rank(a)-rank(b)): a stable sort.  rank[k] is
\* the rank of ary[k].
RECURSIVE sortByRank(_, _)
sortByRank(ary, rank) ==
    IF Len(ary) <= 1 THEN ary
    ELSE LET n     == Len(ary)
             rest  == sortByRank(SubSeq(ary, 1, n - 1), SubSeq(rank, 1, n - 1))
             rrank == sortByRank(SubSeq(rank, 1, n - 1), SubSeq(rank, 1, n - 1))
             le    == { k \in 1..(n - 1) : rrank[k] <= rank[n] }
             at    == IF le = {} THEN 0 ELSE CHOOSE k \in le : \A j \in le : k >= j
         IN  SubSeq(rest, 1, at) \o << ary[n] >> \o SubSeq(rest, at + 1, n - 1)

\* keys.sort()
sortKeys(items) ==
    sortByRank(items,
               [i \in 1..Len(items) |->
                   Cardinality({ j \in 1..Len(items) :
                                     compareCodeUnits(items[j].k, items[i].k) < 0 })])

\* v && (typeof v === 'object')
isObjectValue(v) == v.t \in { "object", "array" }

\* .sort((a,b)=>(av && (typeof av === 'object')?1:0)-(bv && ...?1:0))
sortObjectsLast(items) ==
    sortByRank(items, [i \in 1..Len(items) |-> IF isObjectValue(items[i].v) THEN 1 ELSE 0])

\* The third sort of the keys left out.
sortNameFirst_skipped(items) == items

\* .sort((a,b)=>(a==='name'?0:1)-(b==='name'?0:1))
sortNameFirst(items) ==
    sortByRank(items, [i \in 1..Len(items) |-> IF items[i].k = K_name THEN 0 ELSE 1])

\* The key is an array index: a canonical numeric string.
isArrayIndex(key) ==
    /\ Len(key) > 0
    /\ \A k \in 1..Len(key) : PosIn(DigitChars, key[k]) > 0
    /\ Len(key) > 1 => key[1] /= "0"

\* The own properties of an object to which the properties are assigned in
\* the order given: JavaScript enumerates the array indexes first, in
\* ascending numeric order, then the other keys in the order of assignment.
ownProperties(items) ==
    sortByRank(SelectSeq(items, LAMBDA p : isArrayIndex(p.k)),
               LET ix == SelectSeq(items, LAMBDA p : isArrayIndex(p.k))
               IN  [i \in 1..Len(ix) |->
                       Cardinality({ j \in 1..Len(ix) :
                           \/ Len(ix[j].k) < Len(ix[i].k)
                           \/ /\ Len(ix[j].k) = Len(ix[i].k)
                              /\ compareCodeUnits(ix[j].k, ix[i].k) < 0 })])
        \o SelectSeq(items, LAMBDA p : ~isArrayIndex(p.k))

\* typeof v?.name === 'string'
hasStringName(v) ==
    v.t = "object" /\ \E i \in 1..Len(v.items) : v.items[i].k = K_name /\ v.items[i].v.t = "string"

\* v.name of such a value.
nameOf(v) == v.items[CHOOSE i \in 1..Len(v.items) : v.items[i].k = K_name].v.s

\* sortObj(obj) on a value of any shape (lines 453-490).
RECURSIVE sortObjValue(_)
sortObjValue(obj) ==
    IF obj.t = "array"
    THEN LET els == [i \in 1..Len(obj.items) |->
                        [k |-> << >>,
                         v |-> IF isObjectValue(obj.items[i].v)
                               THEN sortObjValue(obj.items[i].v) ELSE obj.items[i].v]]
         IN  [obj EXCEPT !.items =
                  IF Len(els) > 0 /\ \A i \in 1..Len(els) : hasStringName(els[i].v)
                  THEN sortByKeys(els, [i \in 1..Len(els) |-> nameOf(els[i].v)])
                  ELSE els]
    ELSE IF obj.t = "object"
    THEN LET keys == sortNameFirst(sortObjectsLast(sortKeys(obj.items)))
         IN  [obj EXCEPT !.items =
                  ownProperties([i \in 1..Len(keys) |->
                      [k |-> keys[i].k,
                       v |-> IF isObjectValue(keys[i].v) THEN sortObjValue(keys[i].v)
                             ELSE keys[i].v]])]
    ELSE obj

\* The number of properties of an object and of elements of an array that
\* sortObj is called on.
MaxKeys == 3
MaxElements == 3

\* The keys of the objects.
ObjKeys == { K_name, << "a" >>, << "b" >>, << "B" >>, << "0" >> }

\* The lists of at most n properties with different keys of K and values of V.
RECURSIVE PropsUpTo(_, _, _)
PropsUpTo(K, V, n) ==
    IF n = 0 THEN { << >> }
    ELSE LET shorter == PropsUpTo(K, V, n - 1)
         IN  shorter \cup
             UNION { { Append(q, [k |-> key, v |-> val]) :
                           key \in K \ { q[i].k : i \in 1..Len(q) }, val \in V } :
                     q \in { r \in shorter : Len(r) = n - 1 } }

\* The objects JSON.parse can give: the properties are in the order
\* JavaScript enumerates them.
ObjectsOf(K, V, n) ==
    { Obj(items) : items \in { p \in PropsUpTo(K, V, n) : ownProperties(p) = p } }

RECURSIVE ArraysUpTo(_, _)
ArraysUpTo(V, n) ==
    IF n = 0 THEN { << >> }
    ELSE LET shorter == ArraysUpTo(V, n - 1)
         IN  shorter \cup { Append(q, val) : q \in { r \in shorter : Len(r) = n - 1 },
                                              val \in V }

\* The elements of the arrays: objects with a name, one without, one whose
\* name is no string, a string.
Elements ==
    { Obj(<< [k |-> K_name, v |-> Str(<< "x" >>)] >>),
      Obj(<< [k |-> << "b" >>, v |-> Str(<< "x" >>)], [k |-> K_name, v |-> Str(<< "y" >>)] >>),
      Obj(<< [k |-> << "a" >>, v |-> Str(<< "x" >>)] >>),
      Obj(<< [k |-> K_name, v |-> Null] >>),
      Str(<< "x" >>) }

\* The values of the properties of the nested objects.
Nested ==
    { Str(<< "x" >>),
      Obj(<< [k |-> << "b" >>, v |-> Str(<< "x" >>)], [k |-> << "a" >>, v |-> Null] >>),
      Ary(<< Obj(<< [k |-> << "b" >>, v |-> Str(<< "x" >>)],
                    [k |-> K_name, v |-> Str(<< "y" >>)] >>),
             Obj(<< [k |-> K_name, v |-> Str(<< "x" >>)] >>) >>) }

SortInputs ==
    ObjectsOf(ObjKeys, { Str(<< "x" >>), Null }, MaxKeys)
        \cup { Ary(els) : els \in ArraysUpTo(Elements, MaxElements) }
        \cup ObjectsOf({ K_name, << "a" >>, << "b" >> }, Nested, MaxKeys)

InitSort ==
    /\ \E obj \in SortInputs : call = [obj |-> obj]
    /\ pc = "sort"
    /\ args = EmptyObject /\ sql = << >> /\ statements = << >>
    /\ fi = 1 /\ si = 1
    /\ typeMap = EmptyObject
    /\ tableMap = [toName |-> EmptyObject, toTable |-> EmptyObject,
                   toNameKeys |-> << >>, toTableKeys |-> << >>]
    /\ typeDefs = << >> /\ tsTypes = << >> /\ zodTypes = << >> /\ convoTypes = << >>
    /\ out = EmptyObject
    /\ error = undefined
    /\ dirs = {} /\ written = EmptyObject /\ task = EmptyObject

\* sortObj(obj): the value is sorted in place.
CallSortObj ==
    /\ pc = "sort"
    /\ call' = [obj |-> call.obj, sorted |-> sortObjValue(call.obj)]
    /\ pc' = "sorted"
    /\ UNCHANGED << mainVars, dirs, written, task >>

\* sortObj called on the value it has sorted.
CallSortObjAgain ==
    /\ pc = "sorted"
    /\ call' = [obj |-> call.sorted, sorted |-> sortObjValue(call.sorted)]
    /\ pc' = "sorted again"
    /\ UNCHANGED << mainVars, dirs, written, task >>

NextSort == CallSortObj \/ CallSortObjAgain

SpecSort == InitSort /\ [][NextSort]_vars

(***************************************************************************)
(* What the properties below observe.                                       *)
(***************************************************************************)

\* The second loop has just built both shapes of the table statements[si - 1].
Built == pc = "tables" /\ si > 1 /\ ~IsNothing(getPgCreateTable(statements[si - 1]))

BuiltTable == getPgCreateTable(statements[si - 1])

\* The positions, in the three source arrays, of the two shapes just built.
ReadAt == Len(tsTypes) - 1
InsertAt == Len(tsTypes)

\* The TypeDef just pushed.
ReadDef == typeDefs[Len(typeDefs)]

\* The column declarations of an accepted table, in the order declared.
ColumnElts(s) ==
    SelectSeq(s.tableElts, LAMBDA n : /\ "ColumnDef" \in DOMAIN n
                                      /\ Truthy(Get(n.ColumnDef, "colname"))
                                      /\ Truthy(getPgTypeName(columnTypeName(n.ColumnDef))))

ColumnsOf(s) == LET elts == ColumnElts(s) IN [k \in 1..Len(elts) |-> elts[k].ColumnDef]

ColumnNames(s) == LET elts == ColumnElts(s) IN [k \in 1..Len(elts) |-> elts[k].ColumnDef.colname]

\* The column is declared with an inline constraint of the kind contype.
DeclaredInline(c, contype) ==
    /\ "constraints" \in DOMAIN c
    /\ \E k \in 1..Len(c.constraints) :
          /\ "Constraint" \in DOMAIN c.constraints[k]
          /\ c.constraints[k].Constraint.contype = contype

\* The keys of the table-level primary-key constraints of a table.
TableKeys(s) ==
    { n.Constraint.keys : n \in { s.tableElts[k] : k \in { j \in 1..Len(s.tableElts) :
                                    /\ "Constraint" \in DOMAIN s.tableElts[j]
                                    /\ s.tableElts[j].Constraint.contype = "CONSTR_PRIMARY"
                                    /\ "keys" \in DOMAIN s.tableElts[j].Constraint } } }

\* A table-level primary-key constraint lists the column.
DeclaredInKey(s, colname) ==
    \E keys \in TableKeys(s) : \E j \in 1..Len(keys) : keys[j] = [String |-> [sval |-> colname]]

DeclaredKey(s, c) ==
    \/ DeclaredInline(c, "CONSTR_NOTNULL")
    \/ DeclaredInline(c, "CONSTR_PRIMARY")
    \/ DeclaredInKey(s, c.colname)

\* The lines of a source that declare its properties.
PropLines(src) == SelectSeq(src, LAMBDA l : l.k = "prop")

\* A property line without its indent and without what the struct text
\* wraps an array in: the name, then "?" when optional, then a colon.
Unwrapped(str) == SelectSeq(str, LAMBDA ch : ch /= indent[1] /\ ch /= "array(")

RECURSIVE NameOnLine(_, _)
NameOnLine(str, k) ==
    IF k > Len(str) \/ str[k] \in { "?", ":", ": " } THEN << >>
    ELSE << str[k] >> \o NameOnLine(str, k + 1)

\* The names the property lines of a source declare, in the order written.
PropNames(src) ==
    LET lines == PropLines(src)
    IN  [k \in 1..Len(lines) |-> NameOnLine(Unwrapped(lines[k].s), 1)]

\* The line has the optional mark after the name.
MarkedOptional(str) ==
    LET text == Unwrapped(str) IN text[Len(NameOnLine(text, 1)) + 1] = "?"

\* The optional marks of the k-th property of the i-th type in each text.
TsOptional(i, k) == MarkedOptional(PropLines(tsTypes[i].src)[k].s)

ConvoOptional(i, k) == MarkedOptional(PropLines(convoTypes[i].src)[k].s)

ZodOptional(i, k) ==
    LET str == PropLines(zodTypes[i].src)[k].s
    IN  \E j \in 1..Len(str) : str[j] = ".optional()"

\* The three texts mark the k-th property of the i-th type optional, or
\* none of them does.
MarksAgree(i, k) == TsOptional(i, k) = ConvoOptional(i, k) /\ TsOptional(i, k) = ZodOptional(i, k)

\* The accepted declarations of the input.
Tables == { i \in 1..Len(statements) : ~IsNothing(getPgCreateTable(statements[i])) }
Enums == { i \in 1..Len(statements) : ~IsNothing(getPgCreateEnum(statements[i])) }

\* The accepted table of the input that is stored under the name sqlTable.
TableNamed(sqlTable) ==
    getPgCreateTable(statements[CHOOSE i \in Tables :
                                  getPgCreateTable(statements[i]).name = sqlTable])

\* The storage name a source states in its header ("@table", "# table:").
SqlTableOf(src) ==
    LET str == SelectSeq(src, LAMBDA l : l.k = "table")[1].s
    IN  SubSeq(str, 2, Len(str) - 1)

\* A list of types has no table-derived type before an enum.
EnumsFirst(types) ==
    \A i, j \in 1..Len(types) : i < j => ~(types[i].type = "type" /\ types[j].type = "enum")

\* A list is in the order of localeCompare on the names.
SortedByName(names) ==
    \A i, j \in 1..Len(names) : i < j => localeCompare(names[i], names[j]) <= 0

NamesOf(ary) == [k \in 1..Len(ary) |-> ary[k].name]

\* The text of a list of types: their lines joined, the types two newlines apart.
TextOf(types) ==
    join([k \in 1..Len(types) |->
             join([j \in 1..Len(types[k].src) |-> types[k].src[j].s], << >>)], << NL, NL >>)

(***************************************************************************)
(* The properties.                                                          *)
(***************************************************************************)

\* C1: for every column of every accepted table, the property of the read
\* shape is required iff the column is declared not-null or is a primary key,
\* the property of the insertion shape is required iff it is that and has no
\* default-value clause, and a property is optional iff it is not required:
\* in the PropDef of the read shape and in the three texts of both shapes.
C1_RequiredRule ==
    Built =>
        LET s    == BuiltTable
            cols == ColumnsOf(s)
        IN  /\ Len(ReadDef.props) = Len(cols)
            /\ \A k \in 1..Len(cols) :
                  LET c   == cols[k]
                      key == DeclaredKey(s, c)
                  IN  /\ ReadDef.props[k].optional = ~key
                      /\ MarksAgree(ReadAt, k)
                      /\ MarksAgree(InsertAt, k)
                      /\ TsOptional(ReadAt, k) = ~key
                      /\ TsOptional(InsertAt, k)
                             = ~(key /\ ~DeclaredInline(c, "CONSTR_DEFAULT"))

\* C1, its case: a table has been built with a not-null or primary-key
\* column that has a default (required on read, optional on insert) and a
\* column that is neither (optional in both).
C1_Witness ==
    /\ Built
    /\ \E k \in 1..Len(ColumnsOf(BuiltTable)) :
          /\ DeclaredKey(BuiltTable, ColumnsOf(BuiltTable)[k])
          /\ DeclaredInline(ColumnsOf(BuiltTable)[k], "CONSTR_DEFAULT")
          /\ ~TsOptional(ReadAt, k)
          /\ TsOptional(InsertAt, k)
    /\ \E k \in 1..Len(ColumnsOf(BuiltTable)) :
          /\ ~DeclaredKey(BuiltTable, ColumnsOf(BuiltTable)[k])
          /\ TsOptional(ReadAt, k)
          /\ TsOptional(InsertAt, k)

\* The declared type of a column, as the type map is asked for it.
DeclaredType(c) == getPgTypeName(columnTypeName(c))

\* The names of the enums the input declares, wherever it declares them.
EnumNames == { getPgCreateEnum(statements[i]).name : i \in Enums }

\* C2: every column whose declared type is the name of an enum declared
\* anywhere in the input resolves to the entry of that enum: its rendered
\* name is the enum's generated name and its validator that name + "Schema".
C2_EnumColumnsResolve ==
    Built =>
        \A k \in 1..Len(ColumnsOf(BuiltTable)) :
            DeclaredType(ColumnsOf(BuiltTable)[k]) \in EnumNames =>
                /\ ReadDef.props[k].type.name = toTsName(DeclaredType(ColumnsOf(BuiltTable)[k]))
                /\ Get(ReadDef.props[k].type, "zod")
                       = toTsName(DeclaredType(ColumnsOf(BuiltTable)[k])) \o << "Schema" >>

\* The keys of the merged type map that equal a type name but for the case
\* of its letters.
KeysIgnoringCase(sqlType) ==
    { key \in DOMAIN typeMap : toLowerCase(key) = toLowerCase(sqlType) }

\* C3: the lookup is case-insensitive against the merged type map: a column
\* whose declared type equals a key of the map but for letter case resolves
\* to the entry of such a key.
C3_LookupIgnoresCase ==
    Built =>
        \A k \in 1..Len(ColumnsOf(BuiltTable)) :
            LET sqlType == DeclaredType(ColumnsOf(BuiltTable)[k])
            IN  KeysIgnoringCase(sqlType) /= {} =>
                    \E key \in KeysIgnoringCase(sqlType) :
                        ReadDef.props[k].type = propType(typeMap[key], sqlType)

\* The name of the insertion shape of a table when the suffix is suffix.
InsertionName(s, suffix) == toTsName(s.name) \o suffix

\* C4: after the build, for every table processed, toName[storageName] is
\* the name of the read shape, toTable maps the names of both shapes to the
\* storage name, and toName holds no name of an insertion shape.
C4_TableMap ==
    pc = "done" =>
        \A i \in Tables :
            LET s == getPgCreateTable(statements[i])
            IN  /\ Get(out.tableMap.toName, s.name) = toTsName(s.name)
                /\ Get(out.tableMap.toTable, toTsName(s.name)) = s.name
                /\ Get(out.tableMap.toTable, InsertionName(s, insertSuffixOf(args))) = s.name
                /\ \A n \in DOMAIN out.tableMap.toName :
                       out.tableMap.toName[n] /= InsertionName(s, insertSuffixOf(args))

\* The three texts list the properties of every table-derived type in the
\* order the columns of its table were declared.
TextsKeepColumnOrder ==
    \A i \in 1..Len(tsTypes) :
        tsTypes[i].type = "type" =>
            /\ PropNames(tsTypes[i].src) = ColumnNames(TableNamed(SqlTableOf(tsTypes[i].src)))
            /\ PropNames(zodTypes[i].src) = ColumnNames(TableNamed(SqlTableOf(zodTypes[i].src)))
            /\ PropNames(convoTypes[i].src)
                   = ColumnNames(TableNamed(SqlTableOf(convoTypes[i].src)))

\* The abbreviated type list names the properties in the order of the full one.
ShortListFollowsFull ==
    /\ Len(out.typeListShort) = Len(out.typeList)
    /\ \A i \in 1..Len(out.typeList) : out.typeListShort[i].props = NamesOf(out.typeList[i].props)

\* C5 (as the program has it): the interface, validator and struct texts list
\* the properties of a table in the order its columns were declared; the type
\* list, full and abbreviated, lists the same properties sorted by name.
C5_PropertyOrder ==
    pc = "done" =>
        /\ TextsKeepColumnOrder
        /\ out.ts = TextOf(tsTypes)
        /\ ShortListFollowsFull
        /\ \A i \in 1..Len(out.typeList) :
              out.typeList[i].type = "type" =>
                  /\ SortedByName(NamesOf(out.typeList[i].props))
                  /\ NamesOf(out.typeList[i].props)
                         = sortByKeys(ColumnNames(TableNamed(out.typeList[i].sqlTable)),
                                      ColumnNames(TableNamed(out.typeList[i].sqlTable)))

\* C5, its case: the artifacts are written and a table whose columns were not
\* declared in the order of their names is in the texts and in the type list.
C5_Witness ==
    /\ pc = "done"
    /\ \E i \in 1..Len(out.typeList) :
          /\ out.typeList[i].type = "type"
          /\ NamesOf(out.typeList[i].props) /= ColumnNames(TableNamed(out.typeList[i].sqlTable))
          /\ \E j \in 1..Len(tsTypes) :
                /\ tsTypes[j].name = out.typeList[i].name
                /\ PropNames(tsTypes[j].src) /= NamesOf(out.typeList[i].props)

\* C5 as stated: every artifact, the type list (full and abbreviated)
\* included, lists the properties in the order the columns were declared.
C5_AsStated ==
    pc = "done" =>
        /\ TextsKeepColumnOrder
        /\ ShortListFollowsFull
        /\ \A i \in 1..Len(out.typeList) :
              out.typeList[i].type = "type" =>
                  NamesOf(out.typeList[i].props)
                      = ColumnNames(TableNamed(out.typeList[i].sqlTable))

\* C6 (as the program has it): in the interface, validator and struct texts
\* no table-derived type comes before an enum; the type list is in the order
\* of the names of the types alone, whatever their kind.
C6_TypeOrder ==
    pc = "done" =>
        /\ EnumsFirst(tsTypes) /\ out.ts = TextOf(tsTypes)
        /\ EnumsFirst(zodTypes)
        /\ out.zod = << "import { z } from \"zod\";", NL, NL >> \o TextOf(zodTypes)
        /\ EnumsFirst(convoTypes)
        /\ out.convo = << "> define", NL, NL >> \o TextOf(convoTypes)
        /\ SortedByName(NamesOf(out.typeList))

\* C6, its case: the artifacts are written, the texts hold an enum after
\* which a table-derived type comes, and the type list holds a table-derived
\* type before an enum.
C6_Witness ==
    /\ pc = "done"
    /\ \E i, j \in 1..Len(tsTypes) :
          i < j /\ tsTypes[i].type = "enum" /\ tsTypes[j].type = "type"
    /\ \E i, j \in 1..Len(out.typeList) :
          i < j /\ out.typeList[i].type = "type" /\ out.typeList[j].type = "enum"

\* C6 as stated: in every artifact that lists types, the type list included,
\* no table-derived type comes before an enum.
C6_AsStated ==
    pc = "done" =>
        /\ EnumsFirst(tsTypes)
        /\ EnumsFirst(zodTypes)
        /\ EnumsFirst(convoTypes)
        /\ EnumsFirst(out.typeList)

\* The number of types of a kind in a list.
CountOf(types, kind) == Cardinality({ i \in 1..Len(types) : types[i].type = kind })

\* C7 (as the program has it): for T accepted tables and E accepted enums
\* each text renders 2*T + E constructs, two for every table and one for
\* every enum, and the type list holds T + E records: one TypeDef for every
\* table, that of its read shape, and one of kind enum, without properties,
\* for every enum.
C7_TypeCounts ==
    pc = "done" =>
        /\ CountOf(tsTypes, "type") = 2 * Cardinality(Tables)
        /\ CountOf(zodTypes, "type") = 2 * Cardinality(Tables)
        /\ CountOf(convoTypes, "type") = 2 * Cardinality(Tables)
        /\ CountOf(tsTypes, "enum") = Cardinality(Enums)
        /\ CountOf(zodTypes, "enum") = Cardinality(Enums)
        /\ CountOf(convoTypes, "enum") = Cardinality(Enums)
        /\ Len(out.typeList) = Cardinality(Tables) + Cardinality(Enums)
        /\ CountOf(out.typeList, "type") = Cardinality(Tables)
        /\ CountOf(out.typeList, "enum") = Cardinality(Enums)
        /\ \A i \in 1..Len(out.typeList) :
              /\ out.typeList[i].type = "enum" => out.typeList[i].props = << >>
              /\ out.typeList[i].type = "type" =>
                     out.typeList[i].name = toTsName(out.typeList[i].sqlTable)

\* C7, its case: the artifacts of an input with a table and an enum are written.
C7_Witness ==
    /\ pc = "done"
    /\ Cardinality(Tables) >= 1
    /\ Cardinality(Enums) >= 1
    /\ Len(tsTypes) = 2 * Cardinality(Tables) + Cardinality(Enums)
    /\ Len(out.typeList) = Cardinality(Tables) + Cardinality(Enums)

\* C7 as stated: the type list holds 2*T + E records, as each text does.
C7_AsStated ==
    pc = "done" =>
        /\ Len(tsTypes) = 2 * Cardinality(Tables) + Cardinality(Enums)
        /\ Len(out.typeList) = 2 * Cardinality(Tables) + Cardinality(Enums)

\* C8: the name of the insertion shape is the name of the read shape followed
\* by the configured suffix, and by "Insertion" when none is configured.
C8_InsertionName ==
    Built =>
        tsTypes[InsertAt].name
            = tsTypes[ReadAt].name \o Coalesce(Get(args, "insertSuffix"), S_Insertion)

\* C9: a column is flagged primary iff it has an inline primary-key
\* constraint or a table-level primary-key constraint of its table lists its
\* name; every column a table-level key lists is flagged, and is required in
\* the read shape.
C9_PrimaryFlag ==
    Built =>
        LET s    == BuiltTable
            cols == ColumnsOf(s)
        IN  \A k \in 1..Len(cols) :
                /\ ReadDef.props[k].name = cols[k].colname
                /\ ReadDef.props[k].primary
                       = (\/ DeclaredInline(cols[k], "CONSTR_PRIMARY")
                          \/ DeclaredInKey(s, cols[k].colname))
                /\ DeclaredInKey(s, cols[k].colname) =>
                       ~ReadDef.props[k].optional /\ ~TsOptional(ReadAt, k)

\* C9, its case: a table with a table-level primary key over two columns has
\* been built, one of them without not-null and without an inline key.
C9_Witness ==
    /\ Built
    /\ \E keys \in TableKeys(BuiltTable) : Len(keys) >= 2
    /\ \E k \in 1..Len(ColumnsOf(BuiltTable)) :
          /\ DeclaredInKey(BuiltTable, ColumnsOf(BuiltTable)[k].colname)
          /\ ~DeclaredInline(ColumnsOf(BuiltTable)[k], "CONSTR_NOTNULL")
          /\ ~DeclaredInline(ColumnsOf(BuiltTable)[k], "CONSTR_PRIMARY")
          /\ ReadDef.props[k].primary
          /\ ~ReadDef.props[k].optional

\* The lines of the text above the line that holds the offset location.
LinesAbove(location) ==
    LET ls == split(substring(sql, 0, location)) IN SubSeq(ls, 1, Len(ls) - 1)

\* A comment line without its marker and without the one space after it.
Unmarked(line) ==
    IF startsWith(line, << "-", "-", " " >>) THEN substringFrom(line, 3)
    ELSE substringFrom(line, 2)

\* The unbroken run of comment lines and blank lines that ends with line k of
\* ls, from the top down, the comment lines unmarked.  The first line of the
\* text is never part of it.
RECURSIVE RunAbove(_, _)
RunAbove(ls, k) ==
    IF k < 2 THEN << >>
    ELSE IF trim(ls[k]) = << >> THEN Append(RunAbove(ls, k - 1), << >>)
    ELSE IF startsWith(trim(ls[k]), << "-", "-" >>)
    THEN Append(RunAbove(ls, k - 1), Unmarked(trim(ls[k])))
    ELSE << >>

\* The same without the blank lines: the run ends where a line is no comment.
RECURSIVE BlockAbove(_, _)
BlockAbove(ls, k) ==
    IF k < 2 \/ ~startsWith(trim(ls[k]), << "-", "-" >>) THEN << >>
    ELSE Append(BlockAbove(ls, k - 1), Unmarked(trim(ls[k])))

\* The text of a run, undefined when it holds none.
TextOfRun(run) ==
    LET text == trim(join(run, << NL >>)) IN IF text = << >> THEN undefined ELSE text

\* C10 (as the program has it): the description of the read-shape PropDef of
\* a column is the text of the unbroken run of comment lines and blank lines
\* right above the line of the column: every comment line without its marker
\* and the one space after it, the lines joined and the whole trimmed of the
\* white space around it.  Blank lines between the comments and the column do
\* not break the association; there is no description when the run holds no
\* comment text.
C10_ColumnDescription ==
    Built =>
        LET cols == ColumnsOf(BuiltTable)
        IN  \A k \in 1..Len(cols) :
                LET above == LinesAbove(columnLocation(cols[k]))
                IN  ReadDef.props[k].description = TextOfRun(RunAbove(above, Len(above)))

\* C10, its case: a column has been built that has a comment above it and a
\* blank line between the two, and its PropDef has a description.
C10_Witness ==
    /\ Built
    /\ \E k \in 1..Len(ColumnsOf(BuiltTable)) :
          LET above == LinesAbove(columnLocation(ColumnsOf(BuiltTable)[k]))
          IN  /\ Len(above) >= 2
              /\ trim(above[Len(above)]) = << >>
              /\ startsWith(trim(above[Len(above) - 1]), << "-", "-" >>)
              /\ ReadDef.props[k].description /= undefined

\* C10 as stated: the comment lines right above the column, each without its
\* marker and a single space after it, are the description; with a blank line
\* right above the column there is no description.
C10_AsStated ==
    Built =>
        \A k \in 1..Len(ColumnsOf(BuiltTable)) :
            LET above == LinesAbove(columnLocation(ColumnsOf(BuiltTable)[k]))
            IN  /\ trim(above[Len(above)]) = << >> =>
                       ReadDef.props[k].description = undefined
                /\ startsWith(trim(above[Len(above)]), << "-", "-" >>) =>
                       ReadDef.props[k].description
                           = join(BlockAbove(above, Len(above)), << NL >>)

\* The value JSON.parse gives for the type map file at path is no object
\* keyed by type name: an array, a string, a number, a boolean or null.
ParsesToNonObject(path) ==
    path \in DOMAIN JsonFiles /\ JsonFiles[path].json \notin { "object", "invalid" }

\* The first type map file of the command line that main cannot merge, 0
\* when there is none.
FirstBadFile(bad(_)) ==
    IF \E k \in 1..Len(typeMapFiles) : bad(typeMapFiles[k])
    THEN CHOOSE k \in 1..Len(typeMapFiles) :
             /\ bad(typeMapFiles[k])
             /\ \A j \in 1..(k - 1) : ~bad(typeMapFiles[j])
    ELSE 0

\* Nothing is processed and nothing is written.
NothingDone ==
    /\ pc \in { "start", "typeMap", "failed" }
    /\ typeDefs = << >> /\ tsTypes = << >> /\ zodTypes = << >> /\ convoTypes = << >>
    /\ tableMap = [toName |-> EmptyObject, toTable |-> EmptyObject,
                   toNameKeys |-> << >>, toTableKeys |-> << >>]
    /\ out = EmptyObject

\* C11: when a type map file parses to a JSON value that is not an object
\* keyed by type name (an array, a string, a number, a boolean, null), the run
\* never gets past that file: it merges nothing of it, processes no
\* declaration and writes no artifact, and it ends in the error "type map
\* file should contain a JSON object".
C11_NonObjectFails ==
    FirstBadFile(ParsesToNonObject) > 0 =>
        /\ NothingDone
        /\ fi <= FirstBadFile(ParsesToNonObject)
        /\ pc = "failed" => error = << "type map file should contain a JSON object" >>

\* fs.readFile fails on the path.
Unreadable(path) == path \notin DOMAIN Files

\* The type map file at the path cannot be read, or its text is not JSON.
NotReadAsJson(path) ==
    Unreadable(path) \/ (path \in DOMAIN JsonFiles /\ JsonFiles[path].json = "invalid")

FirstUnreadableSql ==
    CHOOSE k \in 1..Len(sqlFiles) :
        Unreadable(sqlFiles[k]) /\ \A j \in 1..(k - 1) : ~Unreadable(sqlFiles[j])

\* The message of readStringAsync or readJsonAsync for a type map file.
ReadErrorOf(path) ==
    IF Unreadable(path) THEN << "Unable to read file at path: " >> \o path
    ELSE << "Unable to parse JSON contents of: " >> \o path

\* C12: when a source file or a type map file of the command line cannot be
\* read, or a type map file is not JSON, the run processes no declaration and
\* writes no artifact, the dump of the parsed sources included; it ends in
\* the error of the first such file, having read no file after it, and takes
\* no step after the error.
C12_ReadFailureAborts ==
    /\ FirstBadFile(NotReadAsJson) > 0 /\ FirstBadFile(ParsesToNonObject) = 0 =>
           /\ NothingDone
           /\ fi <= FirstBadFile(NotReadAsJson)
           /\ pc = "failed" =>
                  /\ fi = FirstBadFile(NotReadAsJson)
                  /\ error = ReadErrorOf(typeMapFiles[fi])
    /\ (\E k \in 1..Len(sqlFiles) : Unreadable(sqlFiles[k])) =>
           /\ NothingDone
           /\ pc = "failed" /\ fi > Len(typeMapFiles) =>
                  error = << "Unable to read file at path: " >> \o sqlFiles[FirstUnreadableSql]
    /\ pc = "failed" => error /= undefined /\ ~ENABLED Next

\* A run whose type map files were merged and whose source file then could
\* not be read, and a run whose second type map file is not JSON.
C12_Witness ==
    /\ pc = "failed"
    /\ out = EmptyObject
    /\ \/ /\ fi > Len(typeMapFiles)
          /\ typeMap /= defaultTypeMap
          /\ error = << "Unable to read file at path: " >> \o P_missing
       \/ /\ fi = 2
          /\ error = << "Unable to parse JSON contents of: " >> \o P_broken

\* The entries of the k-th type map file of the command line.
FileEntries(k) == entriesOf(JsonFiles[typeMapFiles[k]])

\* The k-th file gives the field f of the type key.
SetsField(k, key, f) == key \in DOMAIN FileEntries(k) /\ f \in DOMAIN FileEntries(k)[key]

\* The last of the first n files that gives the field f of the type key.
LastSetting(n, key, f) ==
    CHOOSE k \in 1..n : SetsField(k, key, f) /\ \A j \in (k + 1)..n : ~SetsField(j, key, f)

\* The table the merge starts from.
BuiltIns == IF Get(args, "clearTypeMap") = << "true" >> THEN EmptyObject ELSE defaultTypeMap

TypeMappingFields == { "name", "ts", "zod", "convo", "sql" }

\* The value the claim gives the field f of the type key after n files.
MergedField(n, key, f) ==
    IF \E k \in 1..n : SetsField(k, key, f) THEN FileEntries(LastSetting(n, key, f))[key][f]
    ELSE IF key \in DOMAIN BuiltIns THEN Get(BuiltIns[key], f)
    ELSE undefined

\* C14: once the first n type map files of the command line are merged, over
\* the built-in table or over an empty one with the clear flag, the type keys
\* of the map are those of the table and of the n files, and every field of
\* every key has the value of the last of the n files that gives it, else the
\* built-in value when the built-ins are kept, else is absent.
C14_MergeByField ==
    pc = "typeMap" =>
        /\ DOMAIN typeMap = DOMAIN BuiltIns \cup UNION { DOMAIN FileEntries(k) : k \in 1..(fi - 1) }
        /\ \A key \in DOMAIN typeMap : \A f \in TypeMappingFields :
               Get(typeMap[key], f) = MergedField(fi - 1, key, f)

\* The second file gave int4 a validator over the built-in one and left the
\* interface rendering the first file gave it, and gave UUID another name.
C14_Witness ==
    /\ pc = "typeMap"
    /\ fi = 3
    /\ typeMapFiles = << P_upper, P_int4 >>
    /\ typeMap[S_int4] = [name |-> << "number" >>, ts |-> << "bigint" >>,
                          zod |-> << "z.bigint()" >>, sql |-> S_int8]
    /\ typeMap[S_UUID] = [name |-> << "UUID" >>]

\* The writes the barrel file is to follow: of the dump of the parsed
\* sources and of the outputs of Promise.all.
OtherWrites == tasksOf(args, parallelOuts \cup { "parsedSqlOutAry" })

\* The next step of the write t.
StepOf(t) == Access(t) \/ Mkdir(t) \/ WriteFile(t)

\* C13: once the write of the barrel file is begun, every write of every
\* other output the command line asks for, the dump of the parsed sources
\* included, is done and its file is written; and while Promise.all is
\* awaited every write of it that is not done can take its next step,
\* whatever the others have done.
C13_BarrelLast ==
    /\ (\E t \in DOMAIN task : t[1] = "tsSchemaBarrelOutAry") =>
           \A u \in OtherWrites :
               /\ u \in DOMAIN task
               /\ task[u] = "done"
               /\ pathOf(args, u) \in DOMAIN written
    /\ pc = "scatter" =>
           \A t \in tasksOf(args, parallelOuts) : task[t] /= "done" => ENABLED StepOf(t)

\* The barrel file is being written after three files of Promise.all were,
\* the directory of one of them made by its write.
C13_Witness ==
    /\ pc = "barrel"
    /\ << "tsSchemaBarrelOutAry", 1 >> \in DOMAIN task
    /\ task[<< "tsSchemaBarrelOutAry", 1 >>] = "writeFile"
    /\ Cardinality(tasksOf(args, parallelOuts)) = 3
    /\ "gen" \in dirs

\* The number of bracket levels a column is declared with.
DeclaredDepth(c) ==
    IF "arrayBounds" \in DOMAIN c.typeName THEN Len(c.typeName.arrayBounds) ELSE 0

\* The PropDef has the type the map gives the declared type name.
ResolvedFromName(p, sqlType) == p.type = propType(mt(typeMap, sqlType), sqlType)

\* C15: for every column declared with N bracket levels, N > 0, the PropDef
\* has the array flag set and the array dimension N; for a column declared
\* with none the PropDef has neither an array flag nor an array dimension;
\* in both cases its type is the one the type map gives the declared type
\* name without the brackets.
C15_ArrayDimensions ==
    Built =>
        \A k \in 1..Len(ColumnsOf(BuiltTable)) :
            LET c == ColumnsOf(BuiltTable)[k]
                p == ReadDef.props[k]
            IN  /\ DeclaredDepth(c) > 0 =>
                       /\ { "isArray", "arrayDimensions" } \subseteq DOMAIN p
                       /\ p.isArray
                       /\ p.arrayDimensions = DeclaredDepth(c)
                /\ DeclaredDepth(c) = 0 => { "isArray", "arrayDimensions" } \cap DOMAIN p = {}
                /\ ResolvedFromName(p, DeclaredType(c))

\* A column declared text[][] next to scalar ones: dimension 2, and the type
\* of text.
C15_Witness ==
    /\ Built
    /\ \E k, j \in 1..Len(ColumnsOf(BuiltTable)) :
          /\ DeclaredDepth(ColumnsOf(BuiltTable)[k]) = 2
          /\ DeclaredType(ColumnsOf(BuiltTable)[k]) = S_text
          /\ ReadDef.props[k].arrayDimensions = 2
          /\ ReadDef.props[k].type = [name |-> << "string" >>, ts |-> << "string" >>,
                                      sql |-> S_text]
          /\ DeclaredDepth(ColumnsOf(BuiltTable)[j]) = 0
          /\ "arrayDimensions" \notin DOMAIN ReadDef.props[j]

\* C15 as stated: the array dimension of the PropDef equals N for every
\* N >= 0, 0 for a scalar, and the array flag is set iff N > 0.
C15_AsStated ==
    Built =>
        \A k \in 1..Len(ColumnsOf(BuiltTable)) :
            /\ "arrayDimensions" \in DOMAIN ReadDef.props[k]
            /\ ReadDef.props[k].arrayDimensions = DeclaredDepth(ColumnsOf(BuiltTable)[k])
            /\ ("isArray" \in DOMAIN ReadDef.props[k] /\ ReadDef.props[k].isArray)
                   <=> DeclaredDepth(ColumnsOf(BuiltTable)[k]) > 0

\* The lines of a source that render a comment recovered from the input.
DocLines(src) == SelectSeq(src, LAMBDA l : l.k \in { "doc", "propDoc" })

\* The number of lines of a validator source that make a describe call.
DescribeCalls(src) ==
    Cardinality({ j \in 1..Len(src) : \E i \in 1..Len(src[j].s) : src[j].s[i] = ".describe(" })

\* The properties of a TypeDef that have a description.
Described(def) == { k \in 1..Len(def.props) : Truthy(def.props[k].description) }

\* 1 when the text is one, 0 when it is undefined or empty.
OneIf(text) == IF Truthy(text) THEN 1 ELSE 0

WellFormedTable(st) ==
    /\ "CreateStmt" \in DOMAIN st.stmt
    /\ "tableElts" \in DOMAIN st.stmt.CreateStmt
    /\ "relation" \in DOMAIN st.stmt.CreateStmt
    /\ Truthy(Get(st.stmt.CreateStmt.relation, "relname"))

\* The statement declares an enum with a name and a list of values.
WellFormedEnum(st) ==
    /\ "CreateEnumStmt" \in DOMAIN st.stmt
    /\ "vals" \in DOMAIN st.stmt.CreateEnumStmt
    /\ "typeName" \in DOMAIN st.stmt.CreateEnumStmt
    /\ \E k \in 1..Len(st.stmt.CreateEnumStmt.typeName) :
           Truthy(getPgString(st.stmt.CreateEnumStmt.typeName[k]))

\* The statements each loop of main has gone over.
EnumLoopAt == IF pc = "enums" THEN si - 1 ELSE Len(statements)
TableLoopAt == IF pc = "enums" THEN 0 ELSE IF pc = "tables" THEN si - 1 ELSE Len(statements)

\* The well-formed declarations among them.
EnumsSeen == { i \in 1..EnumLoopAt : WellFormedEnum(statements[i]) }
TablesSeen == { i \in 1..TableLoopAt : WellFormedTable(statements[i]) }

RelationOf(i) == statements[i].stmt.CreateStmt.relation.relname

\* C17: whatever statements the loops have gone over, no error is thrown,
\* and the type map, the table map, the TypeDef list and the three lists of
\* sources hold what the well-formed enum and table declarations among those
\* statements give and nothing else: a statement that is neither, a table
\* without a column list and an enum without values add nothing, and the
\* declarations after them are processed.
C17_MalformedSkipped ==
    pc \in { "enums", "tables", "write", "done" } =>
        /\ error = undefined
        /\ Len(typeDefs) = Cardinality(EnumsSeen) + Cardinality(TablesSeen)
        /\ Len(tsTypes) = Cardinality(EnumsSeen) + 2 * Cardinality(TablesSeen)
        /\ Len(zodTypes) = Len(tsTypes)
        /\ Len(convoTypes) = Len(tsTypes)
        /\ DOMAIN typeMap
               = DOMAIN BuiltIns
                     \cup UNION { DOMAIN FileEntries(k) : k \in 1..Len(typeMapFiles) }
                     \cup { getFirstPgString(statements[i].stmt.CreateEnumStmt.typeName) :
                                i \in EnumsSeen }
        /\ DOMAIN tableMap.toName = { RelationOf(i) : i \in TablesSeen }
        /\ DOMAIN tableMap.toTable
               = { toTsName(RelationOf(i)) : i \in TablesSeen }
                     \cup { toTsName(RelationOf(i)) \o insertSuffixOf(args) : i \in TablesSeen }

\* The run of an enum declared without values followed by a table is done:
\* the table has its TypeDef and its two shapes, the enum has nothing.
C17_Witness ==
    /\ pc = "done"
    /\ Len(statements) = 2
    /\ "CreateEnumStmt" \in DOMAIN statements[1].stmt
    /\ "vals" \notin DOMAIN statements[1].stmt.CreateEnumStmt
    /\ WellFormedTable(statements[2])
    /\ Len(typeDefs) = 1
    /\ Len(tsTypes) = 2
    /\ S_data \notin DOMAIN typeMap

\* The names the interface text declares (export interface name, export
\* type name) and the names the validator text declares (export const
\* nameSchema).
InterfaceNames == { tsTypes[i].name : i \in 1..Len(tsTypes) }
SchemaNames == { zodTypes[i].name \o << "Schema" >> : i \in 1..Len(zodTypes) }

\* The names of a sequence.
Range(ary) == { ary[k] : k \in 1..Len(ary) }

\* The interface names and the validator names the type description file
\* imports or refers to.
InterfacesReferred ==
    Range(out.tsTypeDef.importTypes)
        \cup UNION { Range(out.tsTypeDef.typeDefs[k].asTypeDef) :
                         k \in 1..Len(out.tsTypeDef.typeDefs) }

SchemasReferred ==
    Range(out.tsTypeDef.importSchemas)
        \cup { out.tsTypeDef.typeDefs[k].zodSchema : k \in 1..Len(out.tsTypeDef.typeDefs) }
        \cup { out.tsTypeDef.typeDefs[k].zodInsertSchema :
                   k \in 1..Len(out.tsTypeDef.typeDefs) }

\* C18: when the run is done, every interface name the type description
\* file imports or refers to is declared by the interface text of the run and
\* every validator name by its validator text, whatever insertion suffix the
\* command line gives.
C18_IndexNamesDefined ==
    pc = "done" =>
        /\ InterfacesReferred \subseteq InterfaceNames
        /\ SchemasReferred \subseteq SchemaNames

\* The elements of a list, each once, in the order of their first occurrence.
RECURSIVE FirstOccurrences(_)
FirstOccurrences(ary) ==
    IF ary = << >> THEN << >>
    ELSE LET before == FirstOccurrences(SubSeq(ary, 1, Len(ary) - 1))
         IN  IF ary[Len(ary)] \in Range(before) THEN before
             ELSE Append(before, ary[Len(ary)])

\* The storage names of the well-formed tables among statements 1..n, and
\* the names of their two shapes, in the order of the declarations.
RECURSIVE DeclaredTables(_)
DeclaredTables(n) ==
    IF n = 0 THEN << >>
    ELSE DeclaredTables(n - 1)
             \o (IF WellFormedTable(statements[n]) THEN << RelationOf(n) >> ELSE << >>)

RECURSIVE DeclaredShapes(_)
DeclaredShapes(n) ==
    IF n = 0 THEN << >>
    ELSE DeclaredShapes(n - 1)
             \o (IF WellFormedTable(statements[n])
                 THEN << toTsName(RelationOf(n)),
                         toTsName(RelationOf(n)) \o insertSuffixOf(args) >>
                 ELSE << >>)

\* The list is in ascending order of the keys under localeCompare.
Ascending(keys) ==
    \A i, j \in 1..Len(keys) : i < j => localeCompare(keys[i], keys[j]) <= 0

CallLines == split(call.sql)

LineStart(k) == Len(join(SubSeq(CallLines, 1, k - 1), << NL >>)) + (IF k > 1 THEN 1 ELSE 0)

\* Line k of the text is a comment line.
IsCommentLine(k) == startsWith(trim(CallLines[k]), << "-", "-" >>)

\* The last line of the text that holds anything: the text may end with a
\* newline.
LastLine ==
    IF CallLines[Len(CallLines)] = << >> /\ Len(CallLines) > 1
    THEN Len(CallLines) - 1 ELSE Len(CallLines)

\* The text of the comment lines from..to, unmarked and joined.
BlockText(from, to) ==
    trim(join([j \in 1..(to - from + 1) |-> Unmarked(trim(CallLines[from + j - 1]))],
              << NL >>))

\* C20: called backward from the start of a line with nothing but comment
\* lines above it, findComment returns the text of all of them, the first
\* line of the text included; called forward from the start of a line with
\* nothing but comment lines from there to the end of the text, it returns
\* the text of all of them, the last line of the text included.
C20_WholeBlock ==
    pc = "returned" =>
        \A k \in 1..LastLine :
            call.statementStart = LineStart(k) =>
                /\ (~call.forward /\ k > 1 /\ \A j \in 1..(k - 1) : IsCommentLine(j))
                       => call.comment = BlockText(1, k - 1)
                /\ (call.forward /\ \A j \in k..LastLine : IsCommentLine(j))
                       => call.comment = BlockText(k, LastLine)

\* The last line of the text that ends with a newline, 0 when none does: the
\* forward scan reads no line after it.
LastTerminated == Len(CallLines) - 1

\* The lines the forward scan collects from the start of line k on, unmarked:
\* the comment lines up to the first line of code or to the last line that
\* ends with a newline.  An empty line is read together with the line after
\* it: two empty lines count as one, an empty line before a comment line or
\* a line of code is passed over.
RECURSIVE RunBelow(_)
RunBelow(k) ==
    IF k > LastTerminated THEN << >>
    ELSE IF CallLines[k] = << >>
    THEN (IF k + 1 > LastTerminated THEN << >>
          ELSE IF CallLines[k + 1] = << >> THEN << << >> >> \o RunBelow(k + 2)
          ELSE IF IsCommentLine(k + 1)
          THEN << Unmarked(trim(CallLines[k + 1])) >> \o RunBelow(k + 2)
          ELSE << >>)
    ELSE IF IsCommentLine(k) THEN << Unmarked(trim(CallLines[k])) >> \o RunBelow(k + 1)
    ELSE << >>

\* The lines without the empty lines at their end.
RECURSIVE WithoutBlankEnd(_)
WithoutBlankEnd(lines) ==
    IF lines /= << >> /\ lines[Len(lines)] = << >>
    THEN WithoutBlankEnd(SubSeq(lines, 1, Len(lines) - 1)) ELSE lines

\* C21 (as the program has it): the value findComment returns is never the
\* empty string and has no white space around it; called from the start of a
\* line it is the text of the lines collected (backward the unbroken run of
\* comment lines and blank lines above the line, the first line of the text
\* left out; forward the run from the line on), each comment line without
\* its marker and the one space after it, joined by newlines and the whole
\* trimmed, and it is absent when the run holds no comment text.  The spaces
\* after the first one are kept on every line but the first of the result.
C21_CollectedText ==
    pc = "returned" =>
        /\ call.comment /= << >>
        /\ call.comment /= undefined => trim(call.comment) = call.comment
        /\ \A k \in 1..Len(CallLines) :
               call.statementStart = LineStart(k) =>
                   /\ (~call.forward /\ k > 1)
                          => call.comment = TextOfRun(RunAbove(CallLines, k - 1))
                   /\ call.forward => call.comment = TextOfRun(RunBelow(k))

\* The forward scan has collected a comment line with one space after the
\* marker and then one with two: the second space is in the result.
C21_Witness ==
    /\ pc = "returned"
    /\ call.forward
    /\ call.statementStart = 0
    /\ call.comment = << "a", NL, " ", "c" >>

\* C21 as stated: every collected line has lost its marker and one space and
\* keeps its other leading spaces, the first one too; the blank lines at the
\* end are removed and nothing else is.
C21_AsStated ==
    pc = "returned" =>
        \A k \in 1..Len(CallLines) :
            (call.statementStart = LineStart(k) /\ call.forward) =>
                call.comment
                    = (IF WithoutBlankEnd(RunBelow(k)) = << >> THEN undefined
                       ELSE join(WithoutBlankEnd(RunBelow(k)), << NL >>))

\* main has built the types: it evaluates the array of Promise.all or is
\* past it.
TypesBuilt == pc \in { "render", "scatter", "barrel", "done" }

\* C22 (as the program has it): a write of a path begins only after the text
\* of its own output is rendered, and the writes of the outputs of
\* Promise.all and of the barrel file only after the types are built; the
\* dump of the parsed sources is written before they are.  Every file holds
\* the text rendered for the output that names its path.
C22_OwnBufferFirst ==
    /\ \A t \in DOMAIN task :
           /\ t[1] \in DOMAIN out
           /\ t[1] /= "parsedSqlOutAry" => TypesBuilt
    /\ \A path \in DOMAIN written :
           \E t \in DOMAIN task : pathOf(args, t) = path /\ written[path] = out[t[1]]
    /\ (TypesBuilt /\ "parsedSqlOutAry" \in DOMAIN args) =>
           \A t \in tasksOf(args, { "parsedSqlOutAry" }) : task[t] = "done"

\* The write of the interface text is begun while the validator text is not
\* rendered yet, after the dump of the parsed sources was written.
C22_Witness ==
    /\ pc = "render"
    /\ << "tsOutAry", 1 >> \in DOMAIN task
    /\ "zodOutAry" \in DOMAIN args
    /\ "zodOutAry" \notin DOMAIN out
    /\ << "dir", "sql.json" >> \in DOMAIN written

\* C22 as stated: when a write of a path is begun, the types are built and
\* the text of every output the command line asks for is rendered.
C22_AsStated ==
    DOMAIN task /= {} => (TypesBuilt /\ toRender(args, out) = {})

\* In a list of sources the types of one rank are in the alphabetical order of
\* their base names.
AlphabeticalInRank(types) ==
    \A i, j \in 1..Len(types) :
        (i < j /\ types[i].order = types[j].order) =>
            localeCompare(types[i].baseName, types[j].baseName) <= 0

\* The source at i is the read shape of a table.
IsReadShape(types, i) == types[i].type = "type" /\ types[i].name = types[i].baseName

\* In a list of sources the read shape of every table is followed at once by
\* the insertion shape of the same table.
ShapesAdjacent(types) ==
    \A i \in 1..Len(types) :
        IsReadShape(types, i) =>
            /\ i < Len(types)
            /\ types[i + 1].type = "type"
            /\ types[i + 1].name = types[i].baseName \o insertSuffixOf(args)
            /\ types[i + 1].baseName = types[i].baseName
            /\ SqlTableOf(types[i + 1].src) = SqlTableOf(types[i].src)

\* C23: in the interface, validator and struct texts written, the types of
\* one rank are in the alphabetical order of their base names, and the read
\* shape of every table is followed at once by the insertion shape of that
\* table, whatever the declarations and their order in the source.
C23_ShapesTogether ==
    pc = "done" =>
        /\ AlphabeticalInRank(tsTypes) /\ ShapesAdjacent(tsTypes)
        /\ AlphabeticalInRank(zodTypes) /\ ShapesAdjacent(zodTypes)
        /\ AlphabeticalInRank(convoTypes) /\ ShapesAdjacent(convoTypes)
        /\ out.ts = TextOf(tsTypes)

\* A run is done whose source declares two tables of one base name: the
\* sort key of the four shapes is the same, and each read shape is still
\* right before its own insertion shape.
C23_Witness ==
    /\ pc = "done"
    /\ Len(tsTypes) = 4
    /\ tsTypes[1].baseName = tsTypes[3].baseName
    /\ IsReadShape(tsTypes, 1) /\ IsReadShape(tsTypes, 3)
    /\ SqlTableOf(tsTypes[1].src) /= SqlTableOf(tsTypes[3].src)
    /\ SqlTableOf(tsTypes[2].src) = SqlTableOf(tsTypes[1].src)

\* The group of a property of a sorted object: the array indexes, the name,
\* the properties with a scalar value, the properties with an object or an
\* array for value.
GroupOf(p) ==
    IF isArrayIndex(p.k) THEN 0
    ELSE IF p.k = K_name THEN 1
    ELSE IF ~isObjectValue(p.v) THEN 2 ELSE 3

\* The group as the statement has it: the name, the scalars, the objects.
StatedGroupOf(p) ==
    IF p.k = K_name THEN 1 ELSE IF ~isObjectValue(p.v) THEN 2 ELSE 3

\* The properties of every object of the value are in the order of their
\* groups and, within a group, in ascending order of their keys (the array
\* indexes by their number, the others by code units).
RECURSIVE KeysInOrder(_, _)
KeysInOrder(v, withIndexes) ==
    /\ v.t = "object" =>
           \A i, j \in 1..Len(v.items) :
               i < j =>
                   LET gi == IF withIndexes THEN GroupOf(v.items[i])
                             ELSE StatedGroupOf(v.items[i])
                       gj == IF withIndexes THEN GroupOf(v.items[j])
                             ELSE StatedGroupOf(v.items[j])
                   IN  /\ gi <= gj
                       /\ (gi = gj /\ gi = 0) =>
                              \/ Len(v.items[i].k) < Len(v.items[j].k)
                              \/ /\ Len(v.items[i].k) = Len(v.items[j].k)
                                 /\ compareCodeUnits(v.items[i].k, v.items[j].k) < 0
                       /\ (gi = gj /\ gi /= 0) =>
                              compareCodeUnits(v.items[i].k, v.items[j].k) < 0
    /\ \A i \in 1..Len(v.items) : KeysInOrder(v.items[i].v, withIndexes)

\* Every array of the value whose elements all have a string for name is in
\* the order of the names.
RECURSIVE ArraysInOrder(_)
ArraysInOrder(v) ==
    /\ (v.t = "array" /\ \A i \in 1..Len(v.items) : hasStringName(v.items[i].v)) =>
           \A i, j \in 1..Len(v.items) :
               i < j => localeCompare(nameOf(v.items[i].v), nameOf(v.items[j].v)) <= 0
    /\ \A i \in 1..Len(v.items) : ArraysInOrder(v.items[i].v)

\* r holds what v holds: an object the same keys with the same values, an
\* array of named elements the same elements (those of one name in the
\* order they had), any other array the same elements at the same places.
RECURSIVE SameContent(_, _)
SameContent(v, r) ==
    /\ r.t = v.t /\ r.s = v.s /\ Len(r.items) = Len(v.items)
    /\ v.t = "object" =>
           \A i \in 1..Len(v.items) :
               \E j \in 1..Len(r.items) :
                   r.items[j].k = v.items[i].k /\ SameContent(v.items[i].v, r.items[j].v)
    /\ v.t = "array" =>
           IF \A i \in 1..Len(v.items) : hasStringName(v.items[i].v)
           THEN \E p \in [1..Len(v.items) -> 1..Len(v.items)] :
                    /\ \A i, j \in 1..Len(v.items) : i /= j => p[i] /= p[j]
                    /\ \A i \in 1..Len(v.items) : SameContent(v.items[i].v, r.items[p[i]].v)
                    /\ \A i, j \in 1..Len(v.items) :
                           (i < j /\ nameOf(v.items[i].v) = nameOf(v.items[j].v))
                               => p[i] < p[j]
           ELSE \A i \in 1..Len(v.items) : SameContent(v.items[i].v, r.items[i].v)

\* C24 (as the program has it): sortObj leaves every object with its array
\* index keys first (JavaScript lists them first whatever the order of
\* assignment), then name, then the keys with a scalar value, then the keys
\* with an object or an array for value, each group in ascending order; it
\* sorts by name every array whose elements all have a string name and
\* leaves every other array in its order; it changes no value and drops no
\* key, and called on its own result it changes nothing.
C24_SortObj ==
    /\ pc \in { "sorted", "sorted again" } =>
           /\ KeysInOrder(call.sorted, TRUE)
           /\ ArraysInOrder(call.sorted)
           /\ SameContent(call.obj, call.sorted)
    /\ pc = "sorted again" => call.sorted = call.obj

\* sortObj has moved name before a scalar, the scalar before a nested array,
\* and has sorted the named elements of that array.
C24_Witness ==
    /\ pc = "sorted again"
    /\ Len(call.sorted.items) = 3
    /\ call.sorted.items[1].k = K_name
    /\ call.sorted.items[2].v.t = "string"
    /\ call.sorted.items[3].v.t = "array"
    /\ nameOf(call.sorted.items[3].v.items[1].v) = << "x" >>
    /\ call.sorted.items[3].v.items[2].v.items[1].k = K_name

\* C24 as stated: name is the first key of every object that has one.
C24_AsStated ==
    pc = "sorted" =>
        /\ KeysInOrder(call.sorted, FALSE)
        /\ ArraysInOrder(call.sorted)
        /\ SameContent(call.obj, call.sorted)

\* The own name of a type written name or schema.name: the last of the
\* strings the parser reports.
OwnName(nodes) == getPgStrings(nodes)[Len(getPgStrings(nodes))]

\* C25: after the run every enum declared has a mapping entry and a TypeDef
\* under its own name, the schema it is declared in left aside, so that two
\* enums of one schema have two entries and two TypeDefs; and every column
\* just built has the type the map gives for the own name of its declared
\* type.
C25_OwnNames ==
    /\ pc = "done" =>
           \A i \in EnumsSeen :
               LET own == OwnName(statements[i].stmt.CreateEnumStmt.typeName)
               IN  /\ own \in DOMAIN typeMap
                   /\ \E k \in 1..Len(typeDefs) :
                          typeDefs[k].type = "enum" /\ typeDefs[k].name = toTsName(own)
    /\ Built =>
           \A k \in 1..Len(ColumnsOf(BuiltTable)) :
               ResolvedFromName(ReadDef.props[k],
                                OwnName(ColumnsOf(BuiltTable)[k].typeName.names))

\* The number of the line of the text that holds the offset location.
LineOf(location) == Len(split(substring(sql, 0, location)))

\* The line of the header of the table just built: the first line of its
\* statement that is neither blank nor a comment.
HeaderLine ==
    LET ls    == split(sql)
        first == IF BuiltTable.location = 0 THEN 1 ELSE LineOf(BuiltTable.location) + 1
    IN  CHOOSE l \in first..Len(ls) :
            /\ trim(ls[l]) /= << >> /\ ~startsWith(trim(ls[l]), << "-", "-" >>)
            /\ \A m \in first..(l - 1) :
                   trim(ls[m]) = << >> \/ startsWith(trim(ls[m]), << "-", "-" >>)

\* C26: of the table just built, no two columns with a description are on
\* one line (they would have been given the same comment block, the one
\* above that line), and no column with a description is on the line of the
\* header of a table that has a description (the block above the header
\* would be the description of both).
C26_OneDeclaration ==
    Built =>
        LET cols == ColumnsOf(BuiltTable)
        IN  /\ \A i, j \in 1..Len(cols) :
                   (i /= j /\ ReadDef.props[i].description /= undefined
                           /\ ReadDef.props[j].description /= undefined)
                       => LineOf(columnLocation(cols[i])) /= LineOf(columnLocation(cols[j]))
            /\ \A i \in 1..Len(cols) :
                   (ReadDef.description /= undefined
                        /\ ReadDef.props[i].description /= undefined)
                       => LineOf(columnLocation(cols[i])) /= HeaderLine

\* The positions of a piece in a line.
PositionsOf(str, piece) == { p \in 1..Len(str) : str[p] = piece }

\* The k-th property line of the read shape just built, in each text.
TsPropLineAt(k) == PropLines(tsTypes[ReadAt].src)[k].s
ZodPropLineAt(k) == PropLines(zodTypes[ReadAt].src)[k].s
ConvoPropLineAt(k) == PropLines(convoTypes[ReadAt].src)[k].s

\* The array columns of the read shape just built.
ArrayProps == { k \in 1..Len(ReadDef.props) : "arrayDimensions" \in DOMAIN ReadDef.props[k] }

IsOptionalProp(k) == "optional" \in DOMAIN ReadDef.props[k] /\ ReadDef.props[k].optional = TRUE

\* The interface line marks the name optional and ends with N array suffixes.
TsArrayOfWhole(k) ==
    LET str == TsPropLineAt(k)
        N   == ReadDef.props[k].arrayDimensions
    IN  /\ MarkedOptional(str) <=> IsOptionalProp(k)
        /\ startsWith(str, indent \o ReadDef.props[k].name)
        /\ endsWith(str, Repeat(<< "[]" >>, N) \o << ";", NL >>)
        /\ Cardinality(PositionsOf(str, "[]")) = N

\* The validator line makes N arrays, and when the property is optional it
\* makes the array optional: optional() is applied after every array().
ZodArrayOfWhole(k) ==
    LET str == ZodPropLineAt(k)
        N   == ReadDef.props[k].arrayDimensions
    IN  /\ Cardinality(PositionsOf(str, ".array()")) = N
        /\ (PositionsOf(str, ".optional()") /= {}) <=> IsOptionalProp(k)
        /\ \A o \in PositionsOf(str, ".optional()") :
               \A a \in PositionsOf(str, ".array()") : a < o

\* The struct line has the name and its optional mark first, outside the N
\* array wrappers.
ConvoArrayOfWhole(k) ==
    LET str == ConvoPropLineAt(k)
        N   == ReadDef.props[k].arrayDimensions
        own == indent \o ReadDef.props[k].name
                   \o (IF IsOptionalProp(k) THEN << "?" >> ELSE << >>) \o << ": " >>
    IN  /\ Cardinality(PositionsOf(str, "array(")) = N
        /\ startsWith(str, own)

\* C27: every array column of the table just built is rendered in the three
\* texts as an array, N levels deep, of its base type, with the optional
\* mark on the property as a whole: the interface marks the name and ends
\* with N array suffixes, the validator applies optional() after the N
\* array() exactly when the property is optional, and the struct has the
\* name and its mark outside the N array wrappers.
C27_ArrayOfWhole ==
    Built => \A k \in ArrayProps :
                 TsArrayOfWhole(k) /\ ZodArrayOfWhole(k) /\ ConvoArrayOfWhole(k)

\* The characters that end a column declaration of the text: the comma
\* before the next element, the end of the line, the parenthesis that
\* closes the table.
DeclarationEnds == { ",", NL, ")" }

\* The declaration written at the offset location: the text from there to
\* the first character that ends a declaration.
OwnDeclaration(location) ==
    LET ends == { p \in (location + 1)..Len(sql) : sql[p] \in DeclarationEnds }
        to   == IF ends = {} THEN Len(sql)
                ELSE (CHOOSE p \in ends : \A q \in ends : p <= q) - 1
    IN  trim(substring(sql, location, to))

\* The columns of the table just built that have a sqlDef.
SlicedProps == { k \in 1..Len(ReadDef.props) : ReadDef.props[k].sqlDef /= undefined }

\* C28: the sqlDef of every column of the table just built is the text of
\* the declaration of that column and no more: no line break and so no
\* text of another line, no comma at its end, no closing parenthesis of the
\* table, whichever the place of the column in the list of elements.
C28_OwnDeclarationOnly ==
    Built => \A k \in SlicedProps :
                 LET sqlDef == ReadDef.props[k].sqlDef
                 IN  /\ sqlDef = OwnDeclaration(columnLocation(ColumnsOf(BuiltTable)[k]))
                     /\ PositionsOf(sqlDef, NL) = {}
                     /\ PositionsOf(sqlDef, ")") = {}
                     /\ ~endsWith(sqlDef, << "," >>)

\* The writes the command line asks for: one for each path of each output.
RequestedWrites == tasksOf(args, DOMAIN args)

\* Two writes raced for a directory: the write t found it missing and,
\* before t creates it, another write of a path of that directory has
\* created it.
LostRace(t) ==
    /\ task[t] = "mkdir"
    /\ dirname(pathOf(args, t)) \in dirs
    /\ \E u \in DOMAIN task \ { t } :
           /\ dirname(pathOf(args, u)) = dirname(pathOf(args, t))
           /\ task[u] \in { "writeFile", "done" }

\* C29: whichever way the checks, the creations of directories and the
\* writes of the files interleave, no write fails, main does not stop before
\* it returns, and when it returns every path asked for holds the whole
\* text of its output.
C29_EveryPathWritten ==
    /\ \A t \in DOMAIN task : task[t] \in { "access", "mkdir", "writeFile", "done" }
    /\ pc /= "done" => ENABLED NextWrite
    /\ pc = "done" =>
           \A t \in RequestedWrites :
               /\ t \in DOMAIN task /\ task[t] = "done"
               /\ pathOf(args, t) \in DOMAIN written
               /\ written[pathOf(args, t)] = render(EmptyObject, t[1])[t[1]]

\* A write lost the race for a directory, and the path it writes is asked
\* for twice.
C29_Witness ==
    \E t \in DOMAIN task :
        /\ LostRace(t)
        /\ \E u \in DOMAIN task \ { t } : pathOf(args, u) = pathOf(args, t)

\* C30: findComment returns, for every text, offset and direction: every
\* iteration of its loop moves the scan index, forward to a greater index
\* and backward to a smaller one; with no line break ahead or the index out
\* of the buffer the loop is left at once; and the call ends.
C30_Terminates ==
    /\ [][(pc = "loop" /\ pc' = "loop")
              => IF call.forward THEN call'.i > call.i ELSE call'.i < call.i]_vars
    /\ [][(pc = "loop" /\ \/ ~inBuffer(call.sql, call.i)
                          \/ nextBreak(call.sql, call.i, call.forward) = -1)
              => pc' = "returned"]_vars
    /\ <>(pc = "returned")

\* The backward scan has returned after two iterations and more.
C30_Witness ==
    pc = "returned" /\ ~call.forward /\ Len(call.lines) >= 2 /\ call.i > -1

====
